---- MODULE Spec2Model ----
(***************************************************************************)
(* A state-machine model of the structural engine of pptrees:              *)
(*   ExpressionNode / ExpressionGraph / ExpressionTree  (src/src/pptrees)  *)
(* Nodes are identified by positive integers; 0 stands for Python's None.  *)
(* A net is an integer: 0 is None, k > 0 is the generated "$n{k}_{name}",  *)
(* a negative number is a boundary name ("$sum", "$a_in[i]").              *)
(* Visualisation attributes (x_pos, GraphViz "pos") are not modelled.      *)
(***************************************************************************)
EXTENDS Integers, Sequences, FiniteSets, TLC

VARIABLES tree,      \* the ExpressionTree object
          pc,        \* "new" | "built" | "ranked" | "ops" | "graph"
          start,     \* the start_point the constructor was called with
          rk,        \* result of the last rank() call
          last,      \* the last operation: name, arguments, outcome, state before
          prev,      \* the operation before the last one
          ops        \* number of operations performed since construction

vars == <<tree, pc, start, rk, last, prev, ops>>

None == 0

\* the value of node.block and of add_block's result that stands for None:
\* block identifiers start at 0, so None needs a value of its own
NoBlock == -1

\* ---------------------------------------------------------------- bounds
MaxRankWidth == 7     \* widest tree the constructor/rank specification builds
MaxWidth == 4         \* widest tree the operations specification builds
MaxOps == 2           \* operations applied to a constructed tree
MaxGraphOps == 3      \* operations applied to a bare ExpressionGraph
MaxShapeWidth == 6    \* widest tree whose shape is compared with the others
MaxBuffers == 1       \* buffers alive at one time
MaxBlockWidth == 3    \* widest tree the block specification builds
MaxBlockOps == 3      \* operations applied in the block specification
MaxBlockSize == 2     \* most nodes handed to one add_block call on a tree
PrefixWidth == 2      \* columns of the prefix_graph
MaxLevel == 2         \* deepest level of the prefix_graph
MaxPrefixNodes == 3   \* most nodes placed in the prefix_graph
MaxPathNodes == 3     \* most nodes of a graph longest_path is called on
MaxPathOps == 2       \* operations applied in the path specification
MaxMirrorWidth == 5   \* widest tree the mirror specification builds
MaxMirrorOps == 2     \* operations applied in the mirror specification
MaxAliasWidth == 8    \* widest tree built from an alias
MaxBalanceOps == 1    \* balancer calls applied to a tree built from an alias
MaxBalanceWidth == 5  \* widest tree the balancer is called on after construction
MaxCatalan == 15      \* largest n catalan is called with
MaxEdgeOps == 4       \* add_edge calls made on a prefix_graph
MaxEdgeFailures == 1  \* add_edge calls of one run that raise
MaxDepthOps == 3      \* rotations and buffer operations applied in the depth specification
MaxRotateWidth == 5   \* widest tree the rotation specification builds
MaxRotateOps == 2     \* rotations and shifts applied in the rotation specification
MaxReduceWidth == 5   \* widest tree reduce_height is called on
MaxReduceOps == 2     \* calls made in the height specification

\* ------------------------------------------------------------- arithmetic
RECURSIVE BitOr(_, _)
\* Python's a | b on non-negative integers
BitOr(a, b) ==
  IF a = 0 THEN b
  ELSE IF b = 0 THEN a
  ELSE (IF a % 2 = 1 \/ b % 2 = 1 THEN 1 ELSE 0) + 2 * BitOr(a \div 2, b \div 2)

RECURSIVE BitAnd(_, _)
\* Python's a & b on non-negative integers
BitAnd(a, b) ==
  IF a = 0 \/ b = 0 THEN 0
  ELSE (IF a % 2 = 1 /\ b % 2 = 1 THEN 1 ELSE 0) + 2 * BitAnd(a \div 2, b \div 2)

RECURSIVE popcount(_)
\* bin(x).count("1")
popcount(x) == IF x = 0 THEN 0 ELSE (x % 2) + popcount(x \div 2)

RECURSIVE Pow2(_)
Pow2(n) == IF n = 0 THEN 1 ELSE 2 * Pow2(n - 1)

RECURSIVE catalan_late_floor(_)
\* catalan with the floor division applied to the factor alone
catalan_late_floor(n) ==
  IF n = 0 THEN 1 ELSE catalan_late_floor(n - 1) * ((4 * n - 2) \div (n + 1))

RECURSIVE catalan(_)
catalan(n) == IF n = 0 THEN 1 ELSE (catalan(n - 1) * (4 * n - 2)) \div (n + 1)

\* catalan_mirror_point returns a float (half + c(n//2)**2 / 2 for odd n);
\* this is twice its value, so that  rank >= mid  is  2*rank >= mid2.
catalan_mirror_point2(n) ==
  LET half == catalan(n) \div 2 IN
  IF n % 2 = 1 THEN 2 * half + catalan(n \div 2) * catalan(n \div 2)
  ELSE 2 * half

\* ---------------------------------------------------------------- catalog
\* The module catalog (pptrees/modules.py) is not part of the sources; this
\* is a minimal catalog of the shape the code reads: input ports
\* (name, width, fan-in per child index) and output ports (name, width).
ModuleNames == {"pre", "root", "cocycle", "lspine", "buffer", "invis"}

ModuleIns(v) ==
  CASE v = "pre"     -> << [name |-> "a_in", width |-> 1, fan |-> <<0, 0>>] >>
    [] v = "root"    -> << [name |-> "gin",  width |-> 2, fan |-> <<1, 1>>] >>
    [] v = "cocycle" -> << [name |-> "gin",  width |-> 2, fan |-> <<1, 1>>] >>
    [] v = "lspine"  -> << [name |-> "gin",  width |-> 2, fan |-> <<1, 1>>] >>
    [] v = "buffer"  -> << [name |-> "gin",  width |-> 1, fan |-> <<1, 0>>] >>
    [] v = "invis"   -> << [name |-> "gin",  width |-> 1, fan |-> <<1, 0>>] >>

ModuleOuts(v) ==
  CASE v = "root" -> << [name |-> "sum",  width |-> 1] >>
    [] OTHER      -> << [name |-> "gout", width |-> 1] >>

\* the catalog's "exists" flag: every module but the placeholder is physical
ModuleExists(v) == v # "invis"

\* util.verso_pin on the catalog's port names
verso_pin(x) ==
  CASE x = "gin"  -> "gout"
    [] x = "gout" -> "gin"
    [] x = "a_in" -> "a_out"
    [] OTHER      -> x

SeqRange(s) == {s[i] : i \in 1..Len(s)}

\* list(reversed(s))
Reverse(s) == [i \in 1..Len(s) |-> s[Len(s) + 1 - i]]

\* first 1-based position of x in s (list.index), 0 when absent
FirstIndex(s, x) ==
  IF \E i \in 1..Len(s) : s[i] = x
  THEN CHOOSE i \in 1..Len(s) : s[i] = x /\ \A j \in 1..(i - 1) : s[j] # x
  ELSE 0

\* ---------------------------------------------------------- ExpressionNode
RECURSIVE Nones(_)
\* [None] * width
Nones(width) == IF width = 0 THEN << >> ELSE Append(Nones(width - 1), None)

RECURSIVE PinTable(_)
\* {name: [None] * width} over a port list; a later port of the same name
\* replaces an earlier one
PinTable(ports) ==
  IF ports = << >> THEN << >>
  ELSE PinTable(Tail(ports)) @@ (Head(ports).name :> Nones(Head(ports).width))

\* ExpressionNode.__init__
NewNode(value, y) ==
  [ value    |-> value,
    children |-> << >>,
    parent   |-> None,
    in_nets  |-> PinTable(ModuleIns(value)),
    out_nets |-> PinTable(ModuleOuts(value)),
    leafs    |-> 0,
    block    |-> NoBlock,
    y_pos    |-> y ]

Raise(t, e) == [t EXCEPT !.err = e]

\* self.nodes: the objects that are nodes of the graph
Nodes(t) == t.nodes

\* the identifier of the next object created; t.node holds every object
FreshId(t) == Cardinality(DOMAIN t.node) + 1

RECURSIVE OrLeafs(_, _, _)
\* the loop of _recalculate_leafs: leafs | c.leafs for every attached child
OrLeafs(t, ch, acc) ==
  IF ch = << >> THEN acc
  ELSE OrLeafs(t, Tail(ch),
               IF Head(ch) = None THEN acc ELSE BitOr(acc, t.node[Head(ch)].leafs))

\* the loop and the assignment of _recalculate_leafs
set_leafs(t, n, leafs) ==
  [t EXCEPT !.node[n].leafs = OrLeafs(t, t.node[n].children, leafs)]

\* _recalculate_leafs without the call on the parent
_recalculate_leafs_local(t, n, leafs) == set_leafs(t, n, leafs)

RECURSIVE _recalculate_leafs(_, _, _)
\* ExpressionNode._recalculate_leafs
_recalculate_leafs(t, n, leafs) ==
  IF t.node[n].parent # None
  THEN _recalculate_leafs(set_leafs(t, n, leafs), t.node[n].parent, 0)
  ELSE set_leafs(t, n, leafs)

\* add_child, "if nodes are not already connected, connect them": the child
\* takes the first empty slot, or a new slot after the last one
attach(t, self, child) ==
  IF t.node[child].parent = self THEN t
  ELSE _recalculate_leafs(
         [t EXCEPT !.node[self].children =
                      IF FirstIndex(@, None) # 0
                      THEN [@ EXCEPT ![FirstIndex(@, None)] = child]
                      ELSE Append(@, child),
                   !.node[child].parent = self],
         self, 0)

\* ExpressionNode.add_child; pins are <<name, index>> with 0-based index.
\* The net name the method returns is left in t.ret.
add_child(t, self, child, pin1, pin2, net_name) ==
  LET pn1 == pin1[1]
      pi1 == pin1[2] + 1
      pn2 == pin2[1]
      pi2 == pin2[2] + 1
  IN IF pn1 \notin DOMAIN t.node[self].in_nets \/ pn2 \notin DOMAIN t.node[child].out_nets
     THEN Raise(t, "ValueError")
     ELSE
       LET net == IF t.node[self].in_nets[pn1][pi1] # None
                    THEN t.node[self].in_nets[pn1][pi1]
                  ELSE IF t.node[child].out_nets[pn2][pi2] # None
                    THEN t.node[child].out_nets[pn2][pi2]
                  ELSE net_name
       IN attach([t EXCEPT !.node[self].in_nets[pn1][pi1] = net,
                           !.node[child].out_nets[pn2][pi2] = net,
                           !.ret = net],
                 self, child)

\* the pin-clearing loop of remove_child for one input port of the parent
ClearedPins(pins, outs) ==
  [pi \in DOMAIN pins |-> IF pins[pi] \in SeqRange(outs) THEN None ELSE pins[pi]]

\* ExpressionNode.remove_child
remove_child(t, self, child) ==
  LET index == FirstIndex(t.node[self].children, child)
      couts == t.node[child].out_nets
  IN IF index = 0 THEN Raise(t, "ValueError")
     ELSE _recalculate_leafs(
            [t EXCEPT !.node[self].children[index] = None,
                      !.node[child].parent = None,
                      !.node[self].in_nets =
                         [pn \in DOMAIN @ |->
                            IF verso_pin(pn) \in DOMAIN couts
                            THEN ClearedPins(@[pn], couts[verso_pin(pn)])
                            ELSE @[pn]]],
            self, 0)

RECURSIVE NodeLen(_, _)
\* len(node): the height of the subtree under the node
NodeLen(t, n) ==
  LET cs == {c \in SeqRange(t.node[n].children) : c # None}
  IN IF cs = {} THEN 0
     ELSE 1 + (CHOOSE h \in {NodeLen(t, c) : c \in cs} :
                 \A c \in cs : NodeLen(t, c) <= h)

\* --------------------------------------------------------- ExpressionGraph
\* ExpressionGraph.__init__ (with the attributes ExpressionTree adds)
NewGraph(width, node_defs) ==
  [ node      |-> << >>,
    nodes     |-> {},
    ret       |-> None,
    leafs     |-> << >>,
    edges     |-> << >>,
    next_net  |-> 1,
    root      |-> None,
    width     |-> width,
    radix     |-> 2,
    node_defs |-> node_defs,
    next_block |-> 0,
    blocks    |-> <<[free |-> TRUE, members |-> {}]>>,
    err       |-> "none" ]

\* ExpressionGraph.add_node; returns the state, the node gets identifier n
add_node(t, n, rec) == [t EXCEPT !.node = (n :> rec) @@ @, !.nodes = @ \cup {n}]

\* ExpressionGraph.remove_node (networkx drops the node's edges with it)
remove_node(t, n) ==
  [t EXCEPT !.nodes = @ \ {n},
            !.edges = [e \in {x \in DOMAIN @ : x[1] # n /\ x[2] # n} |-> @[e]]]

has_edge(t, p, c) == <<p, c>> \in DOMAIN t.edges

\* record_edge with the counter moved on at every call
record_edge_counting(t, proposed, parent, pin1, child, pin2) ==
  IF t.err # "none" THEN t
  ELSE [t EXCEPT !.next_net = @ + 1,
                 !.edges = IF <<parent, child>> \in DOMAIN @
                           THEN [@ EXCEPT ![<<parent, child>>] =
                                   Append(@, [ins |-> pin1, outs |-> pin2, net |-> t.ret])]
                           ELSE (<<parent, child>> :>
                                   <<[ins |-> pin1, outs |-> pin2, net |-> t.ret]>>) @@ @]

\* ExpressionGraph.add_edge after the call of add_child, whose result is in
\* t.ret: the counter moves on when the proposed name was taken, and the
\* pins are recorded on the edge
record_edge(t, proposed, parent, pin1, child, pin2) ==
  IF t.err # "none" THEN t
  ELSE [t EXCEPT !.next_net = IF t.ret = proposed THEN @ + 1 ELSE @,
                 !.edges = IF <<parent, child>> \in DOMAIN @
                           THEN [@ EXCEPT ![<<parent, child>>] =
                                   Append(@, [ins |-> pin1, outs |-> pin2, net |-> t.ret])]
                           ELSE (<<parent, child>> :>
                                   <<[ins |-> pin1, outs |-> pin2, net |-> t.ret]>>) @@ @]

\* ExpressionGraph.add_edge(parent, pin1, child, pin2)
graph_add_edge(t, parent, pin1, child, pin2) ==
  IF t.err # "none" THEN t
  ELSE IF parent = None \/ child = None THEN Raise(t, "TypeError")
  ELSE record_edge(add_child(t, parent, child, pin1, pin2, t.next_net),
                   t.next_net, parent, pin1, child, pin2)

\* ExpressionGraph.remove_edge(parent, child)
graph_remove_edge(t, parent, child) ==
  IF t.err # "none" THEN t
  ELSE IF parent = None \/ child = None THEN Raise(t, "TypeError")
  ELSE IF ~has_edge(t, parent, child) THEN Raise(t, "ValueError")
  ELSE remove_child([t EXCEPT !.edges = [e \in DOMAIN @ \ {<<parent, child>>} |-> @[e]]],
                    parent, child)

\* an entry of the block table: None, or the nodes of a block
NoneBlock == [free |-> TRUE, members |-> {}]
Block(S) == [free |-> FALSE, members |-> S]

\* position (from 0) of the first None entry of the block table at or after
\* from; the length of the table when there is none (next() would raise)
FirstFree(blocks, from) ==
  IF \E x \in from..(Len(blocks) - 1) : blocks[x + 1].free
    THEN CHOOSE x \in from..(Len(blocks) - 1) :
           /\ blocks[x + 1].free
           /\ \A y \in from..(x - 1) : ~blocks[y + 1].free
    ELSE Len(blocks)

\* node.block = b for the nodes of S
set_block(t, S, b) ==
  [t EXCEPT !.node = [n \in DOMAIN @ |-> IF n \in S THEN [@[n] EXCEPT !.block = b]
                                                     ELSE @[n]]]

\* blocks[b] = entry, and one more None when b was the last position
store_block(blocks, b, entry) ==
  IF b = Len(blocks) - 1 THEN Append([blocks EXCEPT ![b + 1] = entry], NoneBlock)
  ELSE [blocks EXCEPT ![b + 1] = entry]

\* next_block = the first None of the table, from position from on
update_next_block(t, from) ==
  IF FirstFree(t.blocks, from) = Len(t.blocks) THEN Raise(t, "StopIteration")
  ELSE [t EXCEPT !.next_block = FirstFree(t.blocks, from)]

\* ExpressionGraph.add_block(*nodes), the arguments being ExpressionNode
\* objects; the block is the subgraph of the nodes that are in the graph.
\* The identifier is left in t.ret, NoBlock when the call returns None
add_block(t, S) ==
  IF t.err # "none" THEN t
  ELSE IF \E n \in S : t.node[n].block # NoBlock THEN Raise(t, "ValueError")
  ELSE IF S = {} THEN [t EXCEPT !.ret = NoBlock]
  ELSE [update_next_block(
          [set_block(t, S, t.next_block)
             EXCEPT !.blocks = store_block(@, t.next_block, Block(S \cap t.nodes))], 0)
          EXCEPT !.ret = t.next_block]

\* the loop of remove_block that clears block on the first member only
clear_first_member(t, S) ==
  IF S = {} THEN t ELSE set_block(t, {CHOOSE n \in S : \A m \in S : n <= m}, NoBlock)

\* the loop of remove_block: node.block = None for every node of the block
clear_members(t, S) == set_block(t, S, NoBlock)

\* ExpressionGraph.remove_block(block_id); the subgraph is a view, so the
\* nodes it yields are the members that are still in the graph
remove_block(t, block_id) ==
  IF t.err # "none" THEN t
  ELSE IF block_id \notin 0..(Len(t.blocks) - 1) THEN Raise(t, "ValueError")
  ELSE IF t.blocks[block_id + 1].free THEN Raise(t, "ValueError")
  ELSE [clear_members(t, t.blocks[block_id + 1].members \cap t.nodes)
          EXCEPT !.blocks[block_id + 1] = NoneBlock, !.ret = None]

\* ExpressionGraph.reset_blocks(): the loop runs over the entries of the
\* table that are not None and hands each entry, the subgraph itself, to
\* remove_block; a subgraph is not in range(len(self.blocks)), so the first
\* such call raises before anything is written
reset_blocks(t) ==
  IF t.err # "none" THEN t
  ELSE IF \E x \in 1..Len(t.blocks) : ~t.blocks[x].free THEN Raise(t, "ValueError")
  ELSE [t EXCEPT !.next_block = 0, !.blocks = <<NoneBlock>>, !.ret = None]

\* ------------------------------------------------------------- match_nodes
RECURSIVE SumFan(_, _)
\* offset: the summed fan-in of the child indices before index k (0-based)
SumFan(fan, k) == IF k = 0 THEN 0 ELSE fan[k] + SumFan(fan, k - 1)

\* util.get_matching_port: position of the first verso port, 0 for ValueError
get_matching_port(port, other_ports) ==
  IF \E k \in 1..Len(other_ports) : port.name = verso_pin(other_ports[k].name)
  THEN CHOOSE k \in 1..Len(other_ports) :
         /\ port.name = verso_pin(other_ports[k].name)
         /\ \A j \in 1..(k - 1) : port.name # verso_pin(other_ports[j].name)
  ELSE 0

RECURSIVE match_ports(_, _, _, _)
\* the loop of match_nodes over the parent's input ports
match_ports(ports, child_ports, index, acc) ==
  IF ports = << >> THEN [ok |-> TRUE, pairs |-> acc]
  ELSE
    LET port == Head(ports)
        k == get_matching_port(port, child_ports)
    IN IF port.fan[index + 1] = 0
         THEN match_ports(Tail(ports), child_ports, index, acc)
       ELSE IF k = 0
         THEN [ok |-> FALSE, pairs |-> << >>]
       ELSE match_ports(Tail(ports), child_ports, index,
              acc \o [b \in 1..port.fan[index + 1] |->
                        << <<port.name, SumFan(port.fan, index) + b - 1>>,
                           <<child_ports[k].name, b - 1>> >>])

\* util.match_nodes: ok = FALSE stands for the None it returns
match_nodes(parent, child, index) ==
  match_ports(ModuleIns(parent), ModuleOuts(child), index, << >>)

\* ---------------------------------------------------------- ExpressionTree
RECURSIVE connect_pairs(_, _, _, _)
\* the loop of ExpressionTree.add_edge over the matched pin pairs
connect_pairs(t, parent, child, pairs) ==
  IF pairs = << >> THEN t
  ELSE connect_pairs(graph_add_edge(t, parent, Head(pairs)[1], child, Head(pairs)[2]),
                     parent, child, Tail(pairs))

\* the end of ExpressionTree.add_edge: the child is placed one row below
place_child(t, parent, child) ==
  IF t.err # "none" THEN t
  ELSE [t EXCEPT !.node[child].y_pos = t.node[parent].y_pos + 1]

\* the pin pairs of match_nodes are connected, when there are any
connect_matched(t, parent, child, m) ==
  IF ~m.ok THEN Raise(t, "ValueError")
  ELSE place_child(connect_pairs(t, parent, child, m.pairs), parent, child)

\* ExpressionTree.add_edge(parent, child, index)
add_edge(t, parent, child, index) ==
  IF t.err # "none" THEN t
  ELSE IF parent = None \/ child = None THEN Raise(t, "TypeError")
  ELSE IF index < -t.radix \/ index > t.radix - 1 THEN Raise(t, "ValueError")
  ELSE connect_matched(t, parent, child,
                       match_nodes(t.node[parent].value, t.node[child].value,
                                   index % t.radix))

\* ExpressionTree.remove_edge is ExpressionGraph.remove_edge
remove_edge(t, parent, child) == graph_remove_edge(t, parent, child)

BoundaryOut == -1
BoundaryIn(index) == -(index + 2)

\* ExpressionTree._connect_outports
_connect_outports(t, root) ==
  IF t.err # "none" THEN t ELSE [t EXCEPT !.node[root].out_nets["sum"][1] = BoundaryOut]

\* ExpressionTree._connect_inports
_connect_inports(t, n, index) == [t EXCEPT !.node[n].in_nets["a_in"][1] = BoundaryIn(index)]

RECURSIVE init_leafs(_, _)
\* the leaf loop of the constructor: leaf a gets identifier a + 2
init_leafs(t, a) ==
  IF a = t.width THEN t
  ELSE init_leafs(
         _recalculate_leafs(
           _connect_inports(add_node(t, a + 2, NewNode("pre", 0)), a + 2, a),
           a + 2, Pow2(a)),
         a + 1)

\* unrank_split with the loop left at its first split
unrank_split_first(width, i, rank) == <<i, rank>>

RECURSIVE unrank_split(_, _, _)
\* the for loop of unrank from index i on: <<i1, residual rank>>
unrank_split(width, i, rank) ==
  LET rem == rank - catalan(i) * catalan(width - i - 1)
  IN IF rem < 0 THEN <<i, rank>>
     ELSE IF i + 1 < (width + 1) \div 2 THEN unrank_split(width, i + 1, rem)
     ELSE <<i, rem>>

\* unrank, the new node: created and connected unless the parent is None,
\* in which case the root stands for it
unrank_node(t, parent, index, def) ==
  IF parent # None
  THEN add_edge(add_node(t, FreshId(t), NewNode(def, 0)), parent, FreshId(t), index)
  ELSE t

RECURSIVE unrank(_, _, _, _, _, _, _)
RECURSIVE unrank_children(_, _, _, _, _, _, _, _)
\* ExpressionTree.unrank; t.leafs is the list the method pops from
unrank(t, parent0, index, rank0, width, mirror0, lspine) ==
  IF t.err # "none" THEN t
  ELSE
    LET mirror_test == 2 * rank0 >= catalan_mirror_point2(width)
        mirror == IF mirror_test THEN ~mirror0 ELSE mirror0
        rank == IF mirror_test THEN catalan(width) - 1 - rank0 ELSE rank0
        def == IF index = 0 /\ "lspine" \in t.node_defs /\ lspine
               THEN "lspine" ELSE "cocycle"
        parent == IF parent0 = None /\ Len(t.leafs) = 1 THEN t.root ELSE parent0
        sp == unrank_split(width, 0, rank)
    IN IF width = 0
       THEN [add_edge(t, parent, t.leafs[Len(t.leafs)], index)
               EXCEPT !.leafs = SubSeq(t.leafs, 1, Len(t.leafs) - 1)]
       ELSE unrank_children(unrank_node(t, parent, index, def),
                            IF parent # None THEN FreshId(t) ELSE t.root,
                            sp[1], width - sp[1] - 1, sp[2] % catalan(sp[1]),
                            sp[2] \div catalan(sp[1]), mirror, lspine)

\* the two recursive calls of unrank: r1, r2 are the ranks and i1, i2 the
\* widths of the two sides, taken in the order the mirror flag gives
unrank_children(t, node, i1, i2, r1, r2, mirror, lspine) ==
  IF mirror
  THEN unrank(unrank(t, node, 0, r2, i2, mirror, lspine),
              node, 1, r1, i1, mirror, FALSE)
  ELSE unrank(unrank(t, node, 0, r1, i1, mirror, lspine),
              node, 1, r2, i2, mirror, FALSE)

\* the constructor after the leaves: the argument check and the first
\* call of unrank
build(t, width, start_point) ==
  IF start_point < 0 \/ start_point > catalan(width - 1) - 1
    THEN Raise(t, "ValueError")
  ELSE IF width = 1 THEN add_edge(t, 1, 2, 0)
  ELSE unrank([t EXCEPT !.leafs = [a \in 1..width |-> a + 1]],
              None, 0, start_point, width - 1, FALSE, TRUE)

\* ExpressionTree.__init__(width, start_point, node_defs), alias None
Constructor(width, start_point, node_defs) ==
  [build(init_leafs(_connect_outports([add_node(NewGraph(width, node_defs), 1,
                                                NewNode("root", 0))
                                         EXCEPT !.root = 1], 1), 0),
         width, start_point)
     EXCEPT !.leafs = << >>, !.ret = None]

RankError == -1

RECURSIVE rank_offset(_, _)
\* the "rest of rank" loop: sum of catalan(i)*catalan(width-i-1), i < lwidth
rank_offset(width, lwidth) ==
  IF lwidth = 0 THEN 0
  ELSE catalan(lwidth - 1) * catalan(width - lwidth) + rank_offset(width, lwidth - 1)

RECURSIVE rank(_, _, _)
\* ExpressionTree.rank(node, mirror); RankError when the method raises
rank(t, node, mirror) ==
  LET ch == t.node[node].children
  IN IF node = t.root /\ Len(ch) = 1 THEN 0
     ELSE IF NodeLen(t, node) = 0 THEN 0
     ELSE IF Len(ch) < 2 \/ ch[1] = None \/ ch[2] = None THEN RankError
     ELSE
       LET lw0 == popcount(t.node[ch[1]].leafs) - 1
           rw0 == popcount(t.node[ch[2]].leafs) - 1
           width == lw0 + rw0 + 1
           new_mirror == lw0 > rw0
           lchild == IF new_mirror THEN ch[2] ELSE ch[1]
           rchild == IF new_mirror THEN ch[1] ELSE ch[2]
           lwidth == IF new_mirror THEN rw0 ELSE lw0
           lrank == rank(t, lchild, new_mirror)
           rrank == rank(t, rchild, new_mirror)
           stub == lrank + rrank * catalan(lwidth) + rank_offset(width, lwidth)
       IN IF lrank = RankError \/ rrank = RankError \/ lwidth < 0 THEN RankError
          ELSE IF new_mirror # mirror THEN catalan(width) - stub - 1 ELSE stub

\* ------------------------------------------------------------- rotations
RECURSIVE iter_down_y(_, _, _)
RECURSIVE iter_down_seq(_, _, _)
\* node.iter_down(lambda x: setattr(x, "y_pos", x.y_pos + d))
iter_down_y(t, n, d) ==
  iter_down_seq([t EXCEPT !.node[n].y_pos = @ + d], t.node[n].children, d)

iter_down_seq(t, ch, d) ==
  IF ch = << >> THEN t
  ELSE iter_down_seq(IF Head(ch) = None THEN t ELSE iter_down_y(t, Head(ch), d),
                     Tail(ch), d)

\* x.iter_down(...) on a reference that may be None
iter_down(t, n, d) ==
  IF t.err # "none" THEN t
  ELSE IF n = None THEN Raise(t, "AttributeError")
  ELSE iter_down_y(t, n, d)

\* _on_lspine with the bound 2**self.width - 1: only the mask of all leaves
\* passes
_on_lspine_all(t, n) == t.node[n].leafs >= Pow2(t.width) - 1

\* ExpressionTree._on_lspine, for a node of the tree
_on_lspine(t, n) == t.node[n].leafs >= Pow2(t.width - 1)

\* the rotations ask _on_lspine about the parent only when node_defs has
\* "lspine"; the question is a ValueError when the parent is not in the tree
lspine_error(t, parent) == "lspine" \in t.node_defs /\ parent \notin Nodes(t)

\* ExpressionTree._on_rspine
_on_rspine(t, n) == BitAnd(t.node[n].leafs, t.node[n].leafs + 1) = 0

\* remove_node(n); n = n.morph(value); add_node(n): the replacement is a new
\* object, whose identifier is left in t.ret
morph(t, n, value) ==
  IF t.err # "none" THEN t
  ELSE IF t.node[n].parent # None \/ \E c \in SeqRange(t.node[n].children) : c # None
    THEN Raise(remove_node(t, n), "ValueError")
  ELSE [add_node(remove_node(t, n), FreshId(t),
                 [NewNode(value, t.node[n].y_pos) EXCEPT !.leafs = t.node[n].leafs,
                                                         !.block = t.node[n].block])
          EXCEPT !.ret = FreshId(t)]

\* ExpressionTree._fix_diagram_positions: only its failure is modelled, the
\* division by the number of attached children of a node in a visited row
_fix_diagram_positions(t) ==
  IF t.err # "none" THEN t
  ELSE IF \E n \in Nodes(t) :
            /\ t.node[n].y_pos \in 0..NodeLen(t, t.root)
            /\ Len(t.node[n].children) > 0
            /\ \A c \in SeqRange(t.node[n].children) : c = None
    THEN Raise(t, "ZeroDivisionError")
  ELSE t

\* grandparent.children.index(parent), 0-based; -1 for its ValueError
IndexIn(t, p, c) == FirstIndex(t.node[p].children, c) - 1

\* statements of the rotations and the buffer operations that run under a
\* condition, and the value a failed call leaves behind
remove_edge_if(c, t, parent, child) == IF c THEN remove_edge(t, parent, child) ELSE t

add_edge_if(c, t, parent, child, index) == IF c THEN add_edge(t, parent, child, index) ELSE t

\* n = n.morph(value) under a condition; t.ret is n, morphed or not
morph_if(c, t, n, value) == IF c THEN morph(t, n, value) ELSE [t EXCEPT !.ret = n]

\* self.root = node; self._connect_outports(self.root), under a condition
set_root_if(c, t, n) ==
  IF c /\ t.err = "none" THEN _connect_outports([t EXCEPT !.root = n], n) ELSE t

\* return n
return(t, n) == IF t.err = "none" THEN [t EXCEPT !.ret = n] ELSE t

\* the nodes a rotation of node works on: inner is the child that changes
\* sides, outer the one that stays, sibling the parent's other child
RotationNodes(t, node, inner, outer, sibling) ==
  LET parent == t.node[node].parent
      gp == t.node[parent].parent
  IN [ node        |-> node,
       parent      |-> parent,
       grandparent |-> gp,
       inner       |-> t.node[node].children[inner],
       outer       |-> t.node[node].children[outer],
       sibling     |-> t.node[parent].children[sibling],
       thru_root   |-> gp = None,
       parent_dir  |-> IF gp = None THEN 0 ELSE IndexIn(t, gp, parent),
       thru_lspine |-> "lspine" \in t.node_defs /\ _on_lspine(t, parent) ]

\* "Adjust the y-pos"
rotate_y_pos(t, c) ==
  iter_down(iter_down(iter_down([t EXCEPT !.node[c.parent].y_pos = @ + 1],
                                c.sibling, 1),
                      c.node, -1),
            c.inner, 1)

\* "Disconnect the nodes"
rotate_disconnect(t, c) ==
  remove_edge_if(c.thru_lspine,
    remove_edge_if(c.thru_lspine,
      remove_edge(
        remove_edge(
          remove_edge_if(~c.thru_root, t, c.grandparent, c.parent),
          c.parent, c.node),
        c.node, c.inner),
      c.parent, c.sibling),
    c.node, c.outer)

\* left_rotate, "Rotate the nodes", with the parent and the node as the
\* morphing left them
left_connect(t, c, parent, node) ==
  return(
    _fix_diagram_positions(
      add_edge_if(c.thru_lspine,
        add_edge(
          add_edge(
            add_edge_if(c.thru_lspine,
              add_edge_if(~c.thru_root, t, c.grandparent, node, c.parent_dir),
              parent, c.sibling, 0),
            parent, c.inner, 1),
          node, parent, 0),
        node, c.outer, 1)),
    node)

\* left_rotate, the morphing of the node (t.ret is the parent) and the root
left_morph_node(t, c, parent) ==
  left_connect(set_root_if(c.thru_lspine /\ c.thru_root, t, t.ret), c, parent, t.ret)

\* left_rotate, "If rotating through lspine, nodes must be morphed"
left_morph(t, c) ==
  left_morph_node(morph_if(c.thru_lspine, t, c.node,
                           IF c.thru_root THEN "root" ELSE "lspine"),
                  c, t.ret)

\* ExpressionTree.left_rotate(node); the node it returns is left in t.ret
left_rotate(t, node) ==
  IF t.node[node].parent = None \/ Len(t.node[node].children) # t.radix
    THEN Raise(t, "ValueError")
  ELSE IF Len(t.node[t.node[node].parent].children) < 2 THEN Raise(t, "IndexError")
  ELSE IF t.node[t.node[node].parent].children[2] # node THEN Raise(t, "ValueError")
  ELSE IF RotationNodes(t, node, 1, 2, 1).parent_dir < 0 THEN Raise(t, "ValueError")
  ELSE IF lspine_error(t, t.node[node].parent) THEN Raise(t, "ValueError")
  ELSE left_morph(
         morph_if(RotationNodes(t, node, 1, 2, 1).thru_lspine
                    /\ RotationNodes(t, node, 1, 2, 1).thru_root,
                  rotate_disconnect(rotate_y_pos(t, RotationNodes(t, node, 1, 2, 1)),
                                    RotationNodes(t, node, 1, 2, 1)),
                  t.node[node].parent, "lspine"),
         RotationNodes(t, node, 1, 2, 1))

\* right_rotate, "Rotate the nodes", with the parent and the node as the
\* morphing left them
right_connect(t, c, parent, node) ==
  return(
    _fix_diagram_positions(
      add_edge_if(c.thru_lspine,
        add_edge(
          add_edge_if(c.thru_lspine,
            add_edge(
              add_edge_if(~c.thru_root, t, c.grandparent, node, c.parent_dir),
              parent, c.inner, 0),
            node, c.outer, 0),
          node, parent, 1),
        parent, c.sibling, 1)),
    node)

\* right_rotate, the morphing of the node (t.ret is the parent) and the root
right_morph_node(t, c, parent) ==
  right_connect(set_root_if(c.thru_lspine /\ c.thru_root, t, t.ret), c, parent, t.ret)

\* right_rotate, "If rotating through root, nodes must be morphed"
right_morph(t, c) ==
  right_morph_node(morph_if(c.thru_lspine /\ c.thru_root, t, c.node, "root"), c, t.ret)

\* ExpressionTree.right_rotate(node); the node it returns is left in t.ret
right_rotate(t, node) ==
  IF t.node[node].parent = None \/ Len(t.node[node].children) # t.radix
    THEN Raise(t, "ValueError")
  ELSE IF t.node[t.node[node].parent].children[1] # node THEN Raise(t, "ValueError")
  ELSE IF Len(t.node[t.node[node].parent].children) < 2 THEN Raise(t, "IndexError")
  ELSE IF RotationNodes(t, node, 2, 1, 2).parent_dir < 0 THEN Raise(t, "ValueError")
  ELSE IF lspine_error(t, t.node[node].parent) THEN Raise(t, "ValueError")
  ELSE right_morph(
         morph_if(RotationNodes(t, node, 2, 1, 2).thru_lspine,
                  rotate_disconnect(rotate_y_pos(t, RotationNodes(t, node, 2, 1, 2)),
                                    RotationNodes(t, node, 2, 1, 2)),
                  t.node[node].parent, "cocycle"),
         RotationNodes(t, node, 2, 1, 2))

\* --------------------------------------------------------------- buffers
\* insert_buffer, "buffer[0].y_pos -= 1; buffer[0].iter_down(y_pos + 1)"
buffer_y_pos(t, buffer) ==
  IF t.err # "none" THEN t
  ELSE iter_down([t EXCEPT !.node[t.node[buffer].children[1]].y_pos = @ - 1],
                 t.node[buffer].children[1], 1)

\* self.add_node(buffer)
add_buffer(t, buffer) ==
  IF t.err # "none" THEN t ELSE add_node(t, buffer, NewNode("buffer", 0))

\* ExpressionTree.insert_buffer(node); the buffer is a new object
insert_buffer(t, node) ==
  IF t.node[node].parent = None THEN Raise(t, "ValueError")
  ELSE IF IndexIn(t, t.node[node].parent, node) < 0 THEN Raise(t, "ValueError")
  ELSE return(
         buffer_y_pos(
           add_edge(
             add_edge(
               add_buffer(remove_edge(t, t.node[node].parent, node), FreshId(t)),
               t.node[node].parent, FreshId(t), IndexIn(t, t.node[node].parent, node)),
             FreshId(t), node, 0),
           FreshId(t)),
         FreshId(t))

\* remove_buffer, "child.y_pos += 1; child.iter_down(y_pos - 1)"
child_y_pos(t, child) ==
  IF t.err # "none" THEN t
  ELSE iter_down([t EXCEPT !.node[child].y_pos = @ + 1], child, -1)

\* self.remove_node(buffer)
drop_buffer(t, buffer) == IF t.err # "none" THEN t ELSE remove_node(t, buffer)

\* ExpressionTree.remove_buffer(buffer)
remove_buffer(t, buffer) ==
  IF t.node[buffer].value # "buffer" THEN Raise(t, "ValueError")
  ELSE IF Len(t.node[buffer].children) = 0 THEN Raise(t, "IndexError")
  ELSE IF t.node[buffer].parent = None THEN Raise(t, "AttributeError")
  ELSE IF IndexIn(t, t.node[buffer].parent, buffer) < 0 THEN Raise(t, "ValueError")
  ELSE return(
         child_y_pos(
           add_edge(
             drop_buffer(
               remove_edge(remove_edge(t, t.node[buffer].parent, buffer),
                           buffer, t.node[buffer].children[1]),
               buffer),
             t.node[buffer].parent, t.node[buffer].children[1],
             IndexIn(t, t.node[buffer].parent, buffer)),
           t.node[buffer].children[1]),
         t.node[buffer].children[1])

\* ----------------------------------------------------------- mirror_subtree
RECURSIVE _get_reversed_leafs(_, _)
RECURSIVE reversed_leafs_of(_, _, _)
\* the leaves under the children ch[i], ch[i + 1], ... in that order
reversed_leafs_of(t, ch, i) ==
  IF i > Len(ch) THEN << >>
  ELSE _get_reversed_leafs(t, ch[i]) \o reversed_leafs_of(t, ch, i + 1)

\* ExpressionTree._get_reversed_leafs
_get_reversed_leafs(t, node) ==
  IF node = None THEN << >>
  ELSE IF Len(t.node[node].children) = 0 THEN <<node>>
  ELSE reversed_leafs_of(t, t.node[node].children, 1)

\* ExpressionTree._get_leafs
_get_leafs(t, node) == Reverse(_get_reversed_leafs(t, node))

\* remove_node unless a statement before it has raised
remove_node_after(t, n) == IF t.err # "none" THEN t ELSE remove_node(t, n)

RECURSIVE remove_subtree(_, _)
RECURSIVE remove_subtrees(_, _, _)
\* the loop of remove_subtree over node.children
remove_subtrees(t, ch, i) ==
  IF i > Len(ch) THEN t
  ELSE remove_subtrees(remove_subtree(t, ch[i]), ch, i + 1)

\* remove_subtree once the subtrees of the children are gone
remove_subtree_top(t, node) ==
  IF t.err # "none" THEN t
  ELSE remove_node_after(
         remove_edge_if(t.node[node].parent # None, t, t.node[node].parent, node), node)

\* ExpressionTree.remove_subtree(node)
remove_subtree(t, node) ==
  IF t.err # "none" THEN t
  ELSE IF node = None THEN Raise(t, "TypeError")
  ELSE remove_subtree_top(remove_subtrees(t, t.node[node].children, 1), node)

\* the loop that adds the leaves again, and the list unrank will pop from
readd_leafs(t, leafs) ==
  IF t.err # "none" THEN t
  ELSE [t EXCEPT !.nodes = @ \cup SeqRange(leafs), !.leafs = leafs]

\* the rank is one that mirror_subtree refuses: low_bound < rank < high_bound
\* with high_bound = catalan_mirror_point(width) - 1 (compared doubled)
unmirrorable(r, width) ==
  /\ 2 * r > 2 * catalan(width) - catalan_mirror_point2(width)
  /\ 2 * r < catalan_mirror_point2(width) - 2

\* the end of mirror_subtree: what unrank returned is returned (the leaf of
\* a subtree of one leaf, None otherwise)
return_unrank(t, width, leaf) ==
  IF t.err # "none" THEN t
  ELSE [t EXCEPT !.leafs = << >>, !.ret = IF width = 0 THEN leaf ELSE None]

\* mirror_subtree once rank (r), leafs, parent and index are known
mirror_rebuild(t, node, r, leafs, parent, index) ==
  IF unmirrorable(r, Len(leafs) - 1) THEN Raise(t, "ValueError")
  ELSE return_unrank(
         unrank(readd_leafs(remove_subtree(t, node), leafs), parent, index,
                catalan(Len(leafs) - 1) - r - 1, Len(leafs) - 1, FALSE, FALSE),
         Len(leafs) - 1, leafs[1])

\* ExpressionTree.mirror_subtree(node); "Error" is an exception of rank()
mirror_subtree(t, node) ==
  IF t.err # "none" THEN t
  ELSE IF rank(t, node, FALSE) = RankError THEN Raise(t, "Error")
  ELSE IF t.node[node].parent = None THEN Raise(t, "AttributeError")
  ELSE IF IndexIn(t, t.node[node].parent, node) = -1 THEN Raise(t, "ValueError")
  ELSE mirror_rebuild(t, node, rank(t, node, FALSE), _get_leafs(t, node),
                      t.node[node].parent, IndexIn(t, t.node[node].parent, node))

\* ------------------------------------------------------------- balancer
\* ExpressionNode.is_proper, leftmost_leaf and rightmost_leaf are not part
\* of the sources; they are modelled from the way the balancer uses them.
\* is_proper: the subtree is the full tree of its height
is_proper(t, n) == popcount(t.node[n].leafs) = Pow2(NodeLen(t, n))

RECURSIVE leftmost_leaf(_, _)
\* the leaf reached through the first child of every node; None when a
\* child slot on the way is empty
leftmost_leaf(t, n) ==
  IF n = None THEN None
  ELSE IF Len(t.node[n].children) = 0 THEN n
  ELSE leftmost_leaf(t, Head(t.node[n].children))

RECURSIVE rightmost_leaf(_, _)
\* the leaf reached through the last child of every node
rightmost_leaf(t, n) ==
  IF n = None THEN None
  ELSE IF Len(t.node[n].children) = 0 THEN n
  ELSE rightmost_leaf(t, t.node[n].children[Len(t.node[n].children)])

\* the object as an except clause finds it: what the failed call changed
\* stays changed
Caught(t) == [t EXCEPT !.err = "none"]

RECURSIVE left_shift(_, _)
RECURSIVE left_shift_retry(_, _)
RECURSIVE left_shift_again(_)
\* ExpressionTree.left_shift(node); the node it returns is left in t.ret
left_shift(t, node) ==
  IF t.err # "none" THEN t
  ELSE IF node \notin Nodes(t) THEN Raise(t, "ValueError")
  ELSE IF _on_lspine(t, node) THEN return(t, None)
  ELSE left_shift_retry(left_rotate(t, node), node)

\* left_shift, "except ValueError: node = self.right_rotate(node)"
left_shift_retry(t, node) ==
  IF t.err # "ValueError" THEN t ELSE left_shift_again(right_rotate(Caught(t), node))

\* left_shift, "return self.left_shift(node)"
left_shift_again(t) == IF t.err # "none" THEN t ELSE left_shift(t, t.ret)

RECURSIVE right_shift(_, _)
RECURSIVE right_shift_retry(_, _)
RECURSIVE right_shift_again(_)
\* ExpressionTree.right_shift(node); the node it returns is left in t.ret
right_shift(t, node) ==
  IF t.err # "none" THEN t
  ELSE IF node \notin Nodes(t) THEN Raise(t, "ValueError")
  ELSE IF _on_rspine(t, node) THEN return(t, None)
  ELSE right_shift_retry(right_rotate(t, node), node)

\* right_shift, "except ValueError: node = self.left_rotate(node)"
right_shift_retry(t, node) ==
  IF t.err # "ValueError" THEN t ELSE right_shift_again(left_rotate(Caught(t), node))

\* right_shift, "return self.right_shift(node)"
right_shift_again(t) == IF t.err # "none" THEN t ELSE right_shift(t, t.ret)

\* self.left_shift(c.leftmost_leaf().parent)
shift_left_from(t, c) ==
  IF t.err # "none" THEN t
  ELSE IF leftmost_leaf(t, c) = None THEN Raise(t, "AttributeError")
  ELSE left_shift(t, t.node[leftmost_leaf(t, c)].parent)

\* self.right_shift(c.rightmost_leaf().parent)
shift_right_from(t, c) ==
  IF t.err # "none" THEN t
  ELSE IF rightmost_leaf(t, c) = None THEN Raise(t, "AttributeError")
  ELSE right_shift(t, t.node[rightmost_leaf(t, c)].parent)

\* the same object but for the value the last call returned
SameObject(a, b) == [a EXCEPT !.ret = None] = [b EXCEPT !.ret = None]

\* reconstruct_node(parent, index), the node left in t.ret; index is 0-based
reconstruct_node(t, parent, index) ==
  IF t.err # "none" THEN t
  ELSE IF parent = None THEN return(t, t.root)
  ELSE IF index + 1 > Len(t.node[parent].children) THEN Raise(t, "IndexError")
  ELSE return(t, t.node[parent].children[index + 1])

\* [len(c) for c in children]
c_heights(t, children) == [a \in DOMAIN children |-> NodeLen(t, children[a])]

\* the leaf populations under_full, just_full and over_full are taken from
leaf_counts(t, children) == [a \in DOMAIN children |-> popcount(t.node[children[a]].leafs)]

RECURSIVE reduce_height_to(_, _, _)
RECURSIVE reduce_height_at(_, _, _, _, _)
RECURSIVE reduce_height_again(_, _, _, _, _, _)
RECURSIVE reduce_height_node(_, _, _, _, _, _)
RECURSIVE reduce_children(_, _, _, _, _, _)
RECURSIVE reduce_child(_, _, _, _, _, _)
\* reduce_height, one round of "Reduce the height of bad children": child a
\* (1-based) of the list taken at the start, with the heights and the leaf
\* populations taken at the start
reduce_child(t, children, heights, counts, a, target_height) ==
  IF NodeLen(t, children[a]) = 0 THEN t
  ELSE IF t.node[children[a]].value = "buffer" THEN remove_buffer(t, children[a])
  ELSE IF heights[a] <= target_height - 1 THEN t
  ELSE IF a > 1 /\ Pow2(target_height - 1) < counts[a]
                /\ Pow2(target_height - 1) > counts[a - 1]
    THEN shift_left_from(t, children[a])
  ELSE IF a < Len(children) /\ Pow2(target_height - 1) < counts[a]
                            /\ Pow2(target_height - 1) > counts[a + 1]
    THEN shift_right_from(t, children[a])
  ELSE reduce_height_to(t, children[a], target_height - 1)

\* reduce_height, the loop over the children from child a on
reduce_children(t, children, heights, counts, a, target_height) ==
  IF t.err # "none" \/ a > Len(children) THEN t
  ELSE reduce_children(reduce_child(t, children, heights, counts, a, target_height),
                       children, heights, counts, a + 1, target_height)

\* reduce_height from "Avoid repeated height calculations" on
reduce_height_at(t, node, target_height, parent, index) ==
  IF None \in SeqRange(t.node[node].children) THEN Raise(t, "TypeError")
  ELSE IF target_height >= NodeLen(t, node) THEN reconstruct_node(t, parent, index)
  ELSE IF target_height < 0 THEN Raise(t, "ValueError")
  ELSE IF Pow2(target_height) < popcount(t.node[node].leafs) THEN return(t, None)
  ELSE IF target_height < 1 THEN Raise(t, "ValueError")
  ELSE reduce_height_again(
         reduce_children(t, t.node[node].children,
                         c_heights(t, t.node[node].children),
                         leaf_counts(t, t.node[node].children), 1, target_height),
         t, node, target_height, parent, index)

\* reduce_height, "return self.reduce_height(node, target_height,
\* original_node)" for the node reconstruct_node left in t.ret; a round
\* that changed nothing is repeated until the interpreter's recursion
\* limit ends the call
reduce_height_node(t, before, node, target_height, parent, index) ==
  IF t.err # "none" THEN t
  ELSE IF t.ret = None THEN Raise(t, "TypeError")
  ELSE IF NodeLen(t, t.ret) = 0 THEN return(t, None)
  ELSE IF SameObject(t, before) /\ t.ret = node THEN Raise(t, "RecursionError")
  ELSE reduce_height_at(t, t.ret, target_height, parent, index)

\* reduce_height, "node = reconstruct_node(*original_node)" and the call
\* that follows it
reduce_height_again(t, before, node, target_height, parent, index) ==
  reduce_height_node(reconstruct_node(t, parent, index), before, node,
                     target_height, parent, index)

\* ExpressionTree.reduce_height(node, target_height) called without
\* original_node; the node it returns is left in t.ret
reduce_height_to(t, node, target_height) ==
  IF t.err # "none" THEN t
  ELSE IF NodeLen(t, node) = 0 THEN return(t, None)
  ELSE IF t.node[node].parent # None /\ IndexIn(t, t.node[node].parent, node) < 0
    THEN Raise(t, "ValueError")
  ELSE reduce_height_at(t, node, target_height, t.node[node].parent,
                        IF t.node[node].parent = None THEN None
                        ELSE IndexIn(t, t.node[node].parent, node))

\* ExpressionTree.reduce_height(node): the height is reduced by 1
reduce_height(t, node) ==
  IF t.err # "none" THEN t ELSE reduce_height_to(t, node, NodeLen(t, node) - 1)

RECURSIVE balance(_, _)
RECURSIVE balance_loop(_, _)
RECURSIVE balance_next(_, _)
RECURSIVE balance_children(_, _, _)
RECURSIVE balance_rest(_)
\* balance, "Reduce the height of the subtree until it cannot be further
\* reduced"; the node the loop ends with is left in t.ret
balance_loop(t, old_node) == balance_next(reduce_height(t, old_node), old_node)

balance_next(t, old_node) ==
  IF t.err # "none" THEN t
  ELSE IF t.ret = None THEN return(t, old_node)
  ELSE balance_loop(t, t.ret)

\* balance, "Balance each child, recursively": the children list is read
\* as the loop goes
balance_children(t, node, a) ==
  IF t.err # "none" THEN t
  ELSE IF a > Len(t.node[node].children) THEN return(t, node)
  ELSE IF t.node[node].children[a] = None THEN Raise(t, "TypeError")
  ELSE balance_children(balance(t, t.node[node].children[a]), node, a + 1)

\* balance, the loop over the children of the node the first loop ended with
balance_rest(t) == IF t.err # "none" THEN t ELSE balance_children(t, t.ret, 1)

\* ExpressionTree.balance(node); the node it returns is left in t.ret
balance(t, node) ==
  IF t.err # "none" THEN t
  ELSE IF NodeLen(t, node) = 0 THEN return(t, node)
  ELSE balance_rest(balance_loop(t, node))

\* node[a] for a statement of the balancer that calls len() on it: a is
\* 0-based, the child is left in t.ret
child_at(t, node, a) ==
  IF t.err # "none" THEN t
  ELSE IF a + 1 > Len(t.node[node].children) THEN Raise(t, "IndexError")
  ELSE IF t.node[node].children[a + 1] = None THEN Raise(t, "TypeError")
  ELSE return(t, t.node[node].children[a + 1])

RECURSIVE lbalance(_, _)
RECURSIVE lbalance_rest(_, _, _)
RECURSIVE lbalance_again(_)
RECURSIVE lbalance_child(_)
RECURSIVE balance_child(_)
\* self.lbalance(node) for the node left in t.ret
lbalance_again(t) ==
  IF t.err # "none" THEN t
  ELSE IF t.ret = None THEN Raise(t, "TypeError")
  ELSE lbalance(t, t.ret)

\* self.lbalance(node[a]) for the child left in t.ret
lbalance_child(t) == IF t.err # "none" THEN t ELSE lbalance(t, t.ret)

\* self.balance(node[0]) for the child left in t.ret
balance_child(t) == IF t.err # "none" THEN t ELSE balance(t, t.ret)

\* lbalance after balance returned the node in t.ret
lbalance_rest(t, parent, index) ==
  IF t.err # "none" THEN t
  ELSE IF is_proper(t, t.ret) THEN return(t, None)
  ELSE IF t.node[t.ret].children[1] = None THEN Raise(t, "AttributeError")
  ELSE IF Len(t.node[t.ret].children) < 2 THEN Raise(t, "IndexError")
  ELSE IF t.node[t.ret].children[2] = None THEN Raise(t, "AttributeError")
  ELSE IF popcount(t.node[t.node[t.ret].children[1]].leafs) < Pow2(NodeLen(t, t.ret) - 1)
          /\ popcount(t.node[t.node[t.ret].children[2]].leafs) > 1
    THEN return(lbalance_again(
                  reconstruct_node(shift_left_from(t, t.node[t.ret].children[2]),
                                   parent, index)),
                None)
  ELSE return(
         lbalance_child(child_at(
           lbalance_child(child_at(
             balance_child(child_at(t, t.ret, 0)),
             t.ret, 0)),
           t.ret, 1)),
         None)

\* ExpressionTree.lbalance(node)
lbalance(t, node) ==
  IF t.err # "none" THEN t
  ELSE IF NodeLen(t, node) = 0 THEN return(t, None)
  ELSE IF t.node[node].parent # None /\ IndexIn(t, t.node[node].parent, node) < 0
    THEN Raise(t, "ValueError")
  ELSE lbalance_rest(balance(t, node), t.node[node].parent,
                     IF t.node[node].parent = None THEN None
                     ELSE IndexIn(t, t.node[node].parent, node))

RECURSIVE insert_buffers(_, _, _)
\* "for a in range(k): self.insert_buffer(node)"
insert_buffers(t, node, k) ==
  IF t.err # "none" \/ k <= 0 THEN t
  ELSE insert_buffers(insert_buffer(t, node), node, k - 1)

RECURSIVE equalize_depths_to(_, _, _)
RECURSIVE equalize_children(_, _, _, _)
RECURSIVE equalize_child(_, _, _, _)
\* equalize_depths, one round of "Iterate over the children": child a
\* (1-based) of the node as the list stands
equalize_child(t, node, a, desired_height) ==
  IF t.node[node].children[a] = None THEN Raise(t, "TypeError")
  ELSE IF is_proper(t, t.node[node].children[a])
    THEN IF t.node[node].children[1] # t.node[node].children[a]
           THEN insert_buffers(t, t.node[node].children[a],
                               desired_height - NodeLen(t, t.node[node].children[a]) - 1)
         ELSE t
  ELSE equalize_depths_to(t, t.node[node].children[a], desired_height - 1)

\* equalize_depths, the loop over the children from child a on
equalize_children(t, node, a, desired_height) ==
  IF t.err # "none" THEN t
  ELSE IF a > Len(t.node[node].children) THEN return(t, node)
  ELSE equalize_children(equalize_child(t, node, a, desired_height),
                         node, a + 1, desired_height)

\* ExpressionTree.equalize_depths(node, desired_height); the node it
\* returns is left in t.ret
equalize_depths_to(t, node, desired_height) ==
  IF t.err # "none" THEN t
  ELSE IF NodeLen(t, node) = 0 THEN return(t, None)
  ELSE IF t.node[node].parent = None THEN Raise(t, "TypeError")
  ELSE IF Len(t.node[t.node[node].parent].children) = 0 THEN Raise(t, "IndexError")
  ELSE IF t.node[t.node[node].parent].children[1] # node
          /\ desired_height > NodeLen(t, node)
    THEN equalize_children(insert_buffers(t, node, desired_height - NodeLen(t, node)),
                           node, 1, NodeLen(t, node))
  ELSE equalize_children(t, node, 1, desired_height)

\* ExpressionTree.equalize_depths(node): desired_height is len(node)
equalize_depths(t, node) ==
  IF t.err # "none" THEN t ELSE equalize_depths_to(t, node, NodeLen(t, node))

\* the constructor's "If an alias was given, implement it" for
\* 'kogge-stone': self.equalize_depths(self.root[1]) after lbalance
equalize_root_child(t) ==
  IF t.err # "none" THEN t
  ELSE IF Len(t.node[t.root].children) < 2 THEN Raise(t, "IndexError")
  ELSE IF t.node[t.root].children[2] = None THEN Raise(t, "TypeError")
  ELSE equalize_depths(t, t.node[t.root].children[2])

\* the constructor's "If an alias was given, implement it" for
\* 'kogge-stone': self.lbalance(self.root[1])
lbalance_root_child(t) ==
  IF t.err # "none" THEN t
  ELSE IF Len(t.node[t.root].children) < 2 THEN Raise(t, "IndexError")
  ELSE IF t.node[t.root].children[2] = None THEN Raise(t, "TypeError")
  ELSE lbalance(t, t.node[t.root].children[2])

\* ExpressionTree(width, alias = alias, node_defs = node_defs) for the
\* aliases 'serial' and 'kogge-stone': start_point is 0
AliasConstructor(width, alias, node_defs) ==
  IF alias = "kogge-stone" /\ width > 2
  THEN return(equalize_root_child(lbalance_root_child(Constructor(width, 0, node_defs))),
              None)
  ELSE Constructor(width, 0, node_defs)

\* ------------------------------------------------------------ prefix_graph
\* A prefix_node of the graph is identified by its grid square <<x, y>>
\* (node_list[y][x]); node_list itself is kept as its number of rows.

\* prefix_node.__init__
NewPrefixNode(x, y, module) ==
  [ x        |-> x,
    y        |-> y,
    m        |-> module,
    ins      |-> [p \in {ModuleIns(module)[i].name : i \in 1..Len(ModuleIns(module))} |->
                    LET q == CHOOSE i \in 1..Len(ModuleIns(module)) : ModuleIns(module)[i].name = p
                    IN [b \in 1..ModuleIns(module)[q].width |-> None]],
    outs     |-> [p \in {ModuleOuts(module)[i].name : i \in 1..Len(ModuleOuts(module))} |->
                    LET q == CHOOSE i \in 1..Len(ModuleOuts(module)) : ModuleOuts(module)[i].name = p
                    IN [b \in 1..ModuleOuts(module)[q].width |-> None]],
    upstream |-> {},
    block    |-> NoBlock ]

\* prefix_graph.__init__
NewPrefixGraph(width) ==
  [ w          |-> width,
    node       |-> << >>,
    node_list  |-> 1,
    edges      |-> << >>,
    next_net   |-> 1,
    next_block |-> 1,
    blocks     |-> <<NoneBlock, NoneBlock>>,
    ret        |-> None,
    err        |-> "none" ]

\* prefix_graph.add_node(prefix_node(x, y, module))
prefix_add_node(t, x, y, module) ==
  IF t.err # "none" THEN t
  ELSE IF ~(x < t.w /\ x >= 0) THEN Raise(t, "ValueError")
  ELSE IF y < 0 THEN Raise(t, "ValueError")
  ELSE IF y > t.node_list THEN Raise(t, "ValueError")
  ELSE IF <<x, y>> \in DOMAIN t.node THEN Raise(t, "ValueError")
  ELSE [t EXCEPT !.node_list = IF y = @ THEN @ + 1 ELSE @,
                 !.node = (<<x, y>> :> NewPrefixNode(x, y, module)) @@ @,
                 !.ret = <<x, y>>]

\* the net an edge from pin1 of n1 to pin2 of n2 gets: a net already on the
\* output pin, else one already on the input pin, else the proposed one
edge_name(t, n1, pin1, n2, pin2, proposed) ==
  IF t.node[n1].outs[pin1[1]][pin1[2] + 1] # None THEN t.node[n1].outs[pin1[1]][pin1[2] + 1]
  ELSE IF t.node[n2].ins[pin2[1]][pin2[2] + 1] # None THEN t.node[n2].ins[pin2[1]][pin2[2] + 1]
  ELSE proposed

\* the assignments of prefix_graph.add_edge once the net is known
connect(t, n1, pin1, n2, pin2, net) ==
  [t EXCEPT !.node[n1].outs[pin1[1]][pin1[2] + 1] = net,
            !.node[n2].ins[pin2[1]][pin2[2] + 1] = net,
            !.node[n2].upstream = @ \cup {n1} \cup t.node[n1].upstream,
            !.edges = Append(@, [n1 |-> n1, n2 |-> n2, ins |-> pin1, outs |-> pin2,
                                 edge_name |-> net, weight |-> 1])]

\* prefix_graph.add_edge with the net counter moved only when the proposed
\* name is used, as ExpressionGraph.add_edge does
prefix_add_edge_counting(t, n1, pin1, n2, pin2) ==
  IF t.err # "none" THEN t
  ELSE IF t.node[n2].y - t.node[n1].y \notin {1, -1} THEN Raise(t, "ValueError")
  ELSE IF t.node[n2].y <= t.node[n1].y THEN Raise(t, "ValueError")
  ELSE IF pin1[1] \notin DOMAIN t.node[n1].outs THEN Raise(t, "ValueError")
  ELSE IF pin2[1] \notin DOMAIN t.node[n2].ins THEN Raise(t, "ValueError")
  ELSE IF pin1[2] + 1 \notin DOMAIN t.node[n1].outs[pin1[1]]
    THEN Raise([t EXCEPT !.next_net = @ + 1], "IndexError")
  ELSE IF pin2[2] + 1 \notin DOMAIN t.node[n2].ins[pin2[1]]
    THEN Raise([t EXCEPT !.next_net = @ + 1], "IndexError")
  ELSE connect([t EXCEPT !.next_net =
                           IF edge_name(t, n1, pin1, n2, pin2, 0) = 0 THEN @ + 1 ELSE @,
                         !.ret = None], n1, pin1, n2, pin2,
               edge_name(t, n1, pin1, n2, pin2, t.next_net))

\* prefix_graph.add_edge(n1, pin1, n2, pin2): pin1 is an output of n1, pin2
\* an input of n2; the net counter moves before the pins are read
prefix_add_edge(t, n1, pin1, n2, pin2) ==
  IF t.err # "none" THEN t
  ELSE IF t.node[n2].y - t.node[n1].y \notin {1, -1} THEN Raise(t, "ValueError")
  ELSE IF t.node[n2].y <= t.node[n1].y THEN Raise(t, "ValueError")
  ELSE IF pin1[1] \notin DOMAIN t.node[n1].outs THEN Raise(t, "ValueError")
  ELSE IF pin2[1] \notin DOMAIN t.node[n2].ins THEN Raise(t, "ValueError")
  ELSE IF pin1[2] + 1 \notin DOMAIN t.node[n1].outs[pin1[1]]
    THEN Raise([t EXCEPT !.next_net = @ + 1], "IndexError")
  ELSE IF pin2[2] + 1 \notin DOMAIN t.node[n2].ins[pin2[1]]
    THEN Raise([t EXCEPT !.next_net = @ + 1], "IndexError")
  ELSE connect([t EXCEPT !.next_net = @ + 1, !.ret = None], n1, pin1, n2, pin2,
               edge_name(t, n1, pin1, n2, pin2, t.next_net))

\* prefix_graph.add_block(*nodes), the arguments being distinct nodes; the
\* identifier is left in t.ret, NoBlock when the call returns None
prefix_add_block(t, S) ==
  IF t.err # "none" THEN t
  ELSE IF \E n \in S : t.node[n].block # NoBlock THEN Raise(t, "ValueError")
  ELSE IF Cardinality(S) # Cardinality({t.node[n].y : n \in S}) THEN Raise(t, "ValueError")
  ELSE IF S = {} THEN [t EXCEPT !.ret = NoBlock]
  ELSE [update_next_block(
          [set_block(t, S, t.next_block)
             EXCEPT !.blocks = store_block(@, t.next_block, Block(S))], 1)
          EXCEPT !.ret = t.next_block]

\* prefix_graph.remove_block(block); None >= len(...) is a TypeError
prefix_remove_block(t, block) ==
  IF t.err # "none" THEN t
  ELSE IF block = NoBlock THEN Raise(t, "TypeError")
  ELSE IF block >= Len(t.blocks) THEN Raise(t, "ValueError")
  ELSE IF t.blocks[block + 1].free THEN Raise(t, "ValueError")
  ELSE [clear_members(t, t.blocks[block + 1].members)
          EXCEPT !.blocks[block + 1] = NoneBlock, !.ret = None]

\* ------------------------------------------------------------ longest_path
\* self.pred[n]: the nodes with an edge to n
Preds(t, n) == {t.edges[j].n1 : j \in {i \in 1..Len(t.edges) : t.edges[i].n2 = n}}

\* the predecessors of n that are in no block
OpenPreds(t, n) == {v \in Preds(t, n) : t.node[v].block = NoBlock}

\* e[0]["weight"]: the weight of the first edge from v to n
EdgeWeight(t, v, n) ==
  t.edges[CHOOSE j \in 1..Len(t.edges) :
            /\ t.edges[j].n1 = v /\ t.edges[j].n2 = n
            /\ \A i \in 1..(j - 1) : ~(t.edges[i].n1 = v /\ t.edges[i].n2 = n)].weight

\* prefix_node._exists
is_node(t, n) == ModuleExists(t.node[n].m)

\* (a, b) < (c, d) on tuples of integers
PairLess(a, b, c, d) == a < c \/ (a = c /\ b < d)

RECURSIVE dist(_, _)
\* dists[n][1] as the loop over the topological order leaves it
dist(t, n) ==
  IF OpenPreds(t, n) = {} THEN 0
  ELSE CHOOSE d \in {dist(t, v) + EdgeWeight(t, v, n) : v \in OpenPreds(t, n)} :
         \A v \in OpenPreds(t, n) : dist(t, v) + EdgeWeight(t, v, n) <= d

\* dists[n][0]: the predecessor with the greatest (distance, column), the
\* node itself when it has no predecessor outside the blocks
best_pred(t, n) ==
  IF OpenPreds(t, n) = {} THEN n
  ELSE CHOOSE v \in OpenPreds(t, n) :
         \A u \in OpenPreds(t, n) :
           ~PairLess(dist(t, v) + EdgeWeight(t, v, n), t.node[v].x,
                     dist(t, u) + EdgeWeight(t, u, n), t.node[u].x)

\* the first node lexicographical_topological_sort yields from todo: of the
\* nodes without a predecessor in todo, the least by (x, y)
first_ready(t, todo) ==
  CHOOSE n \in todo :
    /\ Preds(t, n) \cap todo = {}
    /\ \A m \in todo : Preds(t, m) \cap todo = {} =>
         ~PairLess(t.node[m].x, t.node[m].y, t.node[n].x, t.node[n].y)

RECURSIVE topo_order(_, _, _)
\* nx.lexicographical_topological_sort(self)
topo_order(t, todo, done) ==
  IF todo = {} THEN done
  ELSE topo_order(t, todo \ {first_ready(t, todo)}, Append(done, first_ready(t, todo)))

\* the keys of dists after the filter on paths that start at a placeholder
dists_keys(t) ==
  {n \in DOMAIN t.node : /\ t.node[n].block = NoBlock
                         /\ (is_node(t, n) \/ dist(t, n) # 0)}

\* the key the end point is chosen by: (x != dists[x][0], is_node(x),
\* dists[x][1], -dists[x][0].x), the truth values as 0 and 1
end_key(t, n) ==
  << IF n # best_pred(t, n) THEN 1 ELSE 0,
     IF is_node(t, n) THEN 1 ELSE 0,
     dist(t, n),
     0 - t.node[best_pred(t, n)].x >>

\* a < b on tuples of four integers
KeyLess(a, b) ==
  \/ a[1] < b[1]
  \/ a[1] = b[1] /\ PairLess(a[2], a[3], b[2], b[3])
  \/ a[1] = b[1] /\ a[2] = b[2] /\ a[3] = b[3] /\ a[4] < b[4]

\* max(dists, key = ...): the first key, in the order of the dictionary,
\* that no other key exceeds
end_point(t, order) ==
  order[CHOOSE i \in 1..Len(order) :
          /\ order[i] \in dists_keys(t)
          /\ \A j \in 1..Len(order) : order[j] \in dists_keys(t) =>
               /\ ~KeyLess(end_key(t, order[i]), end_key(t, order[j]))
               /\ (j < i => KeyLess(end_key(t, order[j]), end_key(t, order[i])))]

\* the value of longest_path that stands for None; a path is never empty
NoPath == << >>

RECURSIVE path_back(_, _)
\* the loop that re-creates the path from its end point
path_back(t, n1) ==
  IF n1 \notin dists_keys(t) THEN << >>
  ELSE IF best_pred(t, n1) = n1 THEN <<n1>>
  ELSE <<n1>> \o path_back(t, best_pred(t, n1))

\* longest_path from the chosen end point on; dists[n1] with n1 = None is a
\* KeyError
longest_path_from(t, n1) ==
  IF ~is_node(t, n1) THEN Raise(t, "KeyError")
  ELSE IF n1 = best_pred(t, n1) THEN Raise(t, "KeyError")
  ELSE IF best_pred(t, n1) \notin dists_keys(t) THEN [t EXCEPT !.ret = NoPath]
  ELSE [t EXCEPT !.ret = path_back(t, n1)]

\* prefix_graph.longest_path(); the path is left in t.ret
longest_path(t) ==
  IF t.err # "none" THEN t
  ELSE IF dists_keys(t) = {} THEN Raise(t, "KeyError")
  ELSE longest_path_from(t, end_point(t, topo_order(t, DOMAIN t.node, << >>)))

RECURSIVE add_best_blocks(_)
\* add_best_blocks once longest_path has returned
add_best_path(t) ==
  IF t.err # "none" THEN t
  ELSE IF t.ret = NoPath THEN [t EXCEPT !.ret = None]
  ELSE add_best_blocks(prefix_add_block(t, SeqRange(t.ret)))

\* prefix_graph.add_best_blocks()
add_best_blocks(t) ==
  IF t.err # "none" THEN t
  ELSE add_best_path(longest_path(t))

\* ------------------------------------------------ constructor / rank spec
NodeDefs == { {"pre", "root", "cocycle", "buffer"},
              {"pre", "root", "cocycle", "buffer", "lspine"} }

NoTree == NewGraph(0, {})
NoOp == [op |-> "none", arg |-> << >>, err |-> "none", ret |-> None, pre |-> NoTree]

InitRank ==
  /\ tree = NoTree
  /\ pc = "new"
  /\ start = 0
  /\ rk = 0
  /\ last = NoOp
  /\ prev = NoOp
  /\ ops = 0

\* tree = ExpressionTree(width, start_point = r, node_defs = defs)
Construct ==
  /\ pc = "new"
  /\ \E w \in 1..MaxRankWidth, defs \in NodeDefs :
       \E r \in 0..(catalan(w - 1) - 1) :
         /\ tree' = Constructor(w, r, defs)
         /\ start' = r
  /\ pc' = "built"
  /\ last' = [NoOp EXCEPT !.op = "init", !.err = tree'.err]
  /\ UNCHANGED <<rk, prev, ops>>

\* rk = tree.rank()
CallRank ==
  /\ pc = "built"
  /\ rk' = rank(tree, tree.root, FALSE)
  /\ pc' = "ranked"
  /\ last' = [NoOp EXCEPT !.op = "rank",
                          !.err = IF rk' = RankError THEN "Error" ELSE "none"]
  /\ UNCHANGED <<tree, start, prev, ops>>

NextRank == Construct \/ CallRank

SpecRank == InitRank /\ [][NextRank]_vars

\* ------------------------------------------------------- operations spec
NumBuffers(t) == Cardinality({n \in Nodes(t) : t.node[n].value = "buffer"})

\* the attached children of a node
Attached(t, n) == {c \in SeqRange(t.node[n].children) : c # None}

RECURSIVE Below(_, _)
\* the nodes of S and everything under them along the children lists
Below(t, S) ==
  LET S1 == S \cup UNION {Attached(t, m) : m \in S}
  IN IF S1 = S THEN S ELSE Below(t, S1)

RECURSIVE Above(_, _)
\* the nodes of S and everything over them along the parent links
Above(t, S) ==
  LET S1 == S \cup ({t.node[m].parent : m \in S} \ {None})
  IN IF S1 = S THEN S ELSE Above(t, S1)

Ancestors(t, n) == Above(t, {n})

\* neither the children lists nor the parent links loop; on a looping
\* structure the recursive traversals of the program do not return
Acyclic(t) ==
  \A n \in DOMAIN t.node :
    /\ n \notin Below(t, Attached(t, n))
    /\ n \notin Above(t, {t.node[n].parent} \ {None})

Done(t) == [t EXCEPT !.err = "none", !.ret = None]

Init ==
  /\ \E w \in 1..MaxWidth, defs \in NodeDefs :
       \E r \in 0..(catalan(w - 1) - 1) :
         /\ tree = Constructor(w, r, defs)
         /\ start = r
  /\ pc = "ops"
  /\ rk = 0
  /\ last = NoOp
  /\ prev = NoOp
  /\ ops = 0

\* one call on the tree: its outcome is recorded in last, the exception
\* (if any) is handed to the caller and the object stays as the call left it
Step(op, arg, t) ==
  /\ tree' = Done(t)
  /\ last' = [op |-> op, arg |-> arg, err |-> t.err,
               ret |-> IF t.err = "none" THEN t.ret ELSE None, pre |-> tree]
  /\ prev' = last
  /\ ops' = ops + 1
  /\ UNCHANGED <<pc, start, rk>>

Ready ==
  /\ \/ pc = "ops" /\ ops < MaxOps
     \/ pc = "depth" /\ ops < MaxDepthOps
     \/ pc = "rotate" /\ ops < MaxRotateOps
     \/ pc = "reduce" /\ ops < MaxReduceOps
  /\ Acyclic(tree)

LeftRotate ==
  /\ Ready
  /\ \E n \in Nodes(tree) : Step("left_rotate", <<n>>, left_rotate(tree, n))

RightRotate ==
  /\ Ready
  /\ \E n \in Nodes(tree) : Step("right_rotate", <<n>>, right_rotate(tree, n))

InsertBuffer ==
  /\ Ready
  /\ NumBuffers(tree) < MaxBuffers
  /\ \E n \in Nodes(tree) : Step("insert_buffer", <<n>>, insert_buffer(tree, n))

RemoveBuffer ==
  /\ Ready
  /\ \E n \in Nodes(tree) : Step("remove_buffer", <<n>>, remove_buffer(tree, n))

\* tree.add_edge(p, c, i); a child that is the parent or one of its
\* ancestors is not offered (the leaf recalculation would not return)
AddEdge ==
  /\ Ready
  /\ \E p \in Nodes(tree), i \in 0..1 :
       \E c \in Nodes(tree) \ Ancestors(tree, p) :
         Step("add_edge", <<p, c, i>>, return(add_edge(tree, p, c, i), None))

RemoveEdge ==
  /\ Ready
  /\ \E p \in Nodes(tree), c \in Nodes(tree) :
       Step("remove_edge", <<p, c>>, remove_edge(tree, p, c))

Next == LeftRotate \/ RightRotate \/ InsertBuffer \/ RemoveBuffer \/ AddEdge \/ RemoveEdge

Spec == Init /\ [][Next]_vars

\* ------------------------------------------------------------ graph spec
\* a bare ExpressionGraph holding two cocycle nodes, a buffer and a pre
\* node, none of them connected
GraphNodes == <<"cocycle", "cocycle", "buffer", "pre">>

RECURSIVE add_nodes(_, _)
add_nodes(t, k) ==
  IF k > Len(GraphNodes) THEN t
  ELSE add_nodes(add_node(t, k, NewNode(GraphNodes[k], 0)), k + 1)

\* every (name, index) pin of a port list
PinsOf(ports) ==
  UNION {{<<ports[k].name, b>> : b \in 0..(ports[k].width - 1)} : k \in 1..Len(ports)}

InPins(t, n) == PinsOf(ModuleIns(t.node[n].value))
OutPins(t, n) == PinsOf(ModuleOuts(t.node[n].value))

InitGraph ==
  /\ tree = add_nodes(NewGraph(0, {}), 1)
  /\ pc = "graph"
  /\ start = 0
  /\ rk = 0
  /\ last = NoOp
  /\ prev = NoOp
  /\ ops = 0

ReadyGraph == pc = "graph" /\ ops < MaxGraphOps /\ Acyclic(tree)

\* graph.add_edge(p, pin1, c, pin2) with pins that exist on some module:
\* a pin name the node does not have is the ValueError of add_child
GraphAddEdge ==
  /\ ReadyGraph
  /\ \E p \in Nodes(tree) :
       \E c \in Nodes(tree) \ Ancestors(tree, p) :
         \E pin1 \in InPins(tree, p) \cup {<<"a_in", 0>>}, pin2 \in OutPins(tree, c) :
           Step("add_edge", <<p, pin1, c, pin2>>, graph_add_edge(tree, p, pin1, c, pin2))

GraphRemoveEdge ==
  /\ ReadyGraph
  /\ \E p \in Nodes(tree), c \in Nodes(tree) :
       Step("remove_edge", <<p, c>>, graph_remove_edge(tree, p, c))

NextGraph == GraphAddEdge \/ GraphRemoveEdge

SpecGraph == InitGraph /\ [][NextGraph]_vars

\* ------------------------------------------------------------- block spec
\* modules of the nodes placed in a prefix_graph
PrefixModules == {"cocycle", "invis"}

PrefixCells == (0..(PrefixWidth - 1)) \X (0..MaxLevel)

\* an assignment of modules to at most k grid squares
Layouts(k, modules) ==
  UNION {[C -> modules] : C \in {D \in SUBSET PrefixCells : Cardinality(D) <= k}}

\* the first grid square of a set, level by level and column by column
FirstCell(C) ==
  CHOOSE c \in C : \A d \in C : c[2] < d[2] \/ (c[2] = d[2] /\ c[1] <= d[1])

RECURSIVE place(_, _)
\* add_node for every square of a layout, in the order of FirstCell
place(t, lay) ==
  IF DOMAIN lay = {} THEN t
  ELSE place(prefix_add_node(t, FirstCell(DOMAIN lay)[1], FirstCell(DOMAIN lay)[2],
                             lay[FirstCell(DOMAIN lay)]),
             [d \in DOMAIN lay \ {FirstCell(DOMAIN lay)} |-> lay[d]])

\* the edges add_edge accepts on input pin ("gin", k): from a node to a node
\* one level further down
Wires(t, k) ==
  {e \in (DOMAIN t.node) \X (DOMAIN t.node) \X {k} :
     t.node[e[2]].y = t.node[e[1]].y + 1}

WireKey(e) == ((e[1][2] * PrefixWidth + e[1][1]) * PrefixWidth + e[2][1]) * 2 + e[3]

FirstWire(E) == CHOOSE e \in E : \A f \in E : WireKey(e) <= WireKey(f)

RECURSIVE wire(_, _)
\* add_edge for every wire of E, in the order of FirstWire
wire(t, E) ==
  IF E = {} THEN t
  ELSE wire(prefix_add_edge(t, FirstWire(E)[1], <<"gout", 0>>,
                            FirstWire(E)[2], <<"gin", FirstWire(E)[3]>>),
            E \ {FirstWire(E)})

\* a graph as its builder holds it, the value of the last call dropped
Built(t) == [t EXCEPT !.ret = None]

\* the prefix graphs of the block specification: physical nodes only, not
\* connected or connected wherever two nodes are on adjacent levels
BlockGraphs ==
  UNION {{g, Built(wire(g, Wires(g, 0)))} :
           g \in {h \in {Built(place(NewPrefixGraph(PrefixWidth), lay)) :
                           lay \in Layouts(MaxPrefixNodes, {"cocycle"})} :
                    h.err = "none"}}

InitBlocks ==
  /\ \/ /\ \E w \in 1..MaxBlockWidth, defs \in NodeDefs :
             \E r \in 0..(catalan(w - 1) - 1) :
               /\ tree = Constructor(w, r, defs)
               /\ start = r
        /\ pc = "blocks"
     \/ /\ tree \in BlockGraphs
        /\ start = 0
        /\ pc = "prefix"
  /\ rk = 0
  /\ last = NoOp
  /\ prev = NoOp
  /\ ops = 0

ReadyBlocks == pc = "blocks" /\ ops < MaxBlockOps /\ Acyclic(tree)

ReadyPrefix ==
  \/ pc = "prefix" /\ ops < MaxBlockOps
  \/ pc = "path" /\ ops < MaxPathOps

\* tree.add_block(*S)
AddBlock ==
  /\ ReadyBlocks
  /\ \E S \in {X \in SUBSET Nodes(tree) : Cardinality(X) <= MaxBlockSize} :
       Step("add_block", <<S>>, add_block(tree, S))

\* tree.remove_block(b); NoBlock stands for the None an add_block returned
RemoveBlock ==
  /\ ReadyBlocks
  /\ \E b \in NoBlock..Len(tree.blocks) :
       Step("remove_block", <<b>>, remove_block(tree, b))

\* tree.reset_blocks()
ResetBlocks ==
  /\ ReadyBlocks
  /\ Step("reset_blocks", << >>, reset_blocks(tree))

BlockLeftRotate ==
  /\ ReadyBlocks
  /\ \E n \in Nodes(tree) : Step("left_rotate", <<n>>, left_rotate(tree, n))

BlockRightRotate ==
  /\ ReadyBlocks
  /\ \E n \in Nodes(tree) : Step("right_rotate", <<n>>, right_rotate(tree, n))

BlockInsertBuffer ==
  /\ ReadyBlocks
  /\ NumBuffers(tree) < MaxBuffers
  /\ \E n \in Nodes(tree) : Step("insert_buffer", <<n>>, insert_buffer(tree, n))

BlockRemoveBuffer ==
  /\ ReadyBlocks
  /\ \E n \in Nodes(tree) : Step("remove_buffer", <<n>>, remove_buffer(tree, n))

\* graph.add_block(*S) on a prefix_graph
PrefixAddBlock ==
  /\ ReadyPrefix
  /\ \E S \in SUBSET DOMAIN tree.node :
       Step("add_block", <<S>>, prefix_add_block(tree, S))

\* graph.remove_block(b) on a prefix_graph
PrefixRemoveBlock ==
  /\ ReadyPrefix
  /\ \E b \in NoBlock..Len(tree.blocks) :
       Step("remove_block", <<b>>, prefix_remove_block(tree, b))

NextBlocks ==
  \/ AddBlock \/ RemoveBlock \/ ResetBlocks
  \/ BlockLeftRotate \/ BlockRightRotate \/ BlockInsertBuffer \/ BlockRemoveBuffer
  \/ PrefixAddBlock \/ PrefixRemoveBlock

SpecBlocks == InitBlocks /\ [][NextBlocks]_vars

\* -------------------------------------------------------------- path spec
\* the prefix graphs of the path specification: physical nodes and
\* placeholders, any choice of the edges between adjacent levels
PathGraphs ==
  UNION {{Built(wire(g, E)) : E \in SUBSET Wires(g, 0)} :
           g \in {h \in {Built(place(NewPrefixGraph(PrefixWidth), lay)) :
                           lay \in Layouts(MaxPathNodes, PrefixModules)} :
                    h.err = "none"}}

InitPath ==
  /\ tree \in PathGraphs
  /\ pc = "path"
  /\ start = 0
  /\ rk = 0
  /\ last = NoOp
  /\ prev = NoOp
  /\ ops = 0

\* path = graph.longest_path()
LongestPath ==
  /\ pc = "path" /\ ops < MaxPathOps
  /\ Step("longest_path", << >>, longest_path(tree))

\* graph.add_best_blocks()
AddBestBlocks ==
  /\ pc = "path" /\ ops < MaxPathOps
  /\ Step("add_best_blocks", << >>, add_best_blocks(tree))

NextPath == LongestPath \/ AddBestBlocks \/ PrefixAddBlock \/ PrefixRemoveBlock

SpecPath == InitPath /\ [][NextPath]_vars

\* ------------------------------------------------------------ mirror spec
InitMirror ==
  /\ \E w \in 1..MaxMirrorWidth, defs \in NodeDefs :
       \E r \in 0..(catalan(w - 1) - 1) :
         /\ tree = Constructor(w, r, defs)
         /\ start = r
  /\ pc = "mirror"
  /\ rk = 0
  /\ last = NoOp
  /\ prev = NoOp
  /\ ops = 0

\* tree.mirror_subtree(n)
MirrorSubtree ==
  /\ pc = "mirror" /\ ops < MaxMirrorOps /\ Acyclic(tree)
  /\ \E n \in Nodes(tree) : Step("mirror_subtree", <<n>>, mirror_subtree(tree, n))

NextMirror == MirrorSubtree

SpecMirror == InitMirror /\ [][NextMirror]_vars

\* --------------------------------------------------------- balancer spec
Aliases == {"serial", "kogge-stone"}

InitBalance ==
  /\ tree = NoTree
  /\ pc = "alias"
  /\ start = 0
  /\ rk = 0
  /\ last = NoOp
  /\ prev = NoOp
  /\ ops = 0

\* tree = ExpressionTree(width = w, alias = alias, node_defs = defs); when
\* the constructor raises there is no object to call anything on
ConstructAlias ==
  /\ pc = "alias"
  /\ \E w \in 1..MaxAliasWidth, defs \in NodeDefs, alias \in Aliases :
       /\ tree' = AliasConstructor(w, alias, defs)
       /\ last' = [op |-> "init", arg |-> <<w, alias>>, err |-> tree'.err,
                   ret |-> None, pre |-> NoTree]
  /\ pc' = "balance"
  /\ UNCHANGED <<start, rk, prev, ops>>

ReadyBalance ==
  /\ pc = "balance" /\ tree.err = "none" /\ ops < MaxBalanceOps
  /\ tree.width <= MaxBalanceWidth /\ Acyclic(tree)

Lbalance ==
  /\ ReadyBalance
  /\ \E n \in Nodes(tree) : Step("lbalance", <<n>>, lbalance(tree, n))

Balance ==
  /\ ReadyBalance
  /\ \E n \in Nodes(tree) : Step("balance", <<n>>, balance(tree, n))

ReduceHeight ==
  /\ ReadyBalance
  /\ \E n \in Nodes(tree) : Step("reduce_height", <<n>>, reduce_height(tree, n))

EqualizeDepths ==
  /\ ReadyBalance
  /\ \E n \in Nodes(tree) : Step("equalize_depths", <<n>>, equalize_depths(tree, n))

LeftShift ==
  /\ ReadyBalance
  /\ \E n \in Nodes(tree) : Step("left_shift", <<n>>, left_shift(tree, n))

RightShift ==
  /\ ReadyBalance
  /\ \E n \in Nodes(tree) : Step("right_shift", <<n>>, right_shift(tree, n))

NextBalance ==
  ConstructAlias \/ Lbalance \/ Balance \/ ReduceHeight \/ EqualizeDepths
    \/ LeftShift \/ RightShift

SpecBalance == InitBalance /\ [][NextBalance]_vars

\* ------------------------------------------------------------ depth spec
\* a constructed tree on which only rotations and buffer operations are called
InitDepth ==
  /\ \E w \in 1..MaxWidth, defs \in NodeDefs :
       \E r \in 0..(catalan(w - 1) - 1) :
         /\ tree = Constructor(w, r, defs)
         /\ start = r
  /\ pc = "depth"
  /\ rk = 0
  /\ last = NoOp
  /\ prev = NoOp
  /\ ops = 0

NextDepth == LeftRotate \/ RightRotate \/ InsertBuffer \/ RemoveBuffer

SpecDepth == InitDepth /\ [][NextDepth]_vars

\* --------------------------------------------------------- rotation spec
\* a constructed tree on which only rotations and shifts are called
InitRotate ==
  /\ \E w \in 1..MaxRotateWidth, defs \in NodeDefs :
       \E r \in 0..(catalan(w - 1) - 1) :
         /\ tree = Constructor(w, r, defs)
         /\ start = r
  /\ pc = "rotate"
  /\ rk = 0
  /\ last = NoOp
  /\ prev = NoOp
  /\ ops = 0

\* tree.left_shift(n)
ShiftLeft ==
  /\ Ready /\ pc = "rotate"
  /\ \E n \in Nodes(tree) : Step("left_shift", <<n>>, left_shift(tree, n))

\* tree.right_shift(n)
ShiftRight ==
  /\ Ready /\ pc = "rotate"
  /\ \E n \in Nodes(tree) : Step("right_shift", <<n>>, right_shift(tree, n))

NextRotate == LeftRotate \/ RightRotate \/ ShiftLeft \/ ShiftRight

SpecRotate == InitRotate /\ [][NextRotate]_vars

\* ----------------------------------------------------------- height spec
\* a constructed tree, with or without a buffer, on which reduce_height is
\* called with a target height
InitReduce ==
  /\ \E w \in 1..MaxReduceWidth, defs \in NodeDefs :
       \E r \in 0..(catalan(w - 1) - 1) :
         /\ tree = Constructor(w, r, defs)
         /\ start = r
  /\ pc = "reduce"
  /\ rk = 0
  /\ last = NoOp
  /\ prev = NoOp
  /\ ops = 0

\* tree.reduce_height(n, h)
ReduceHeightTo ==
  /\ Ready /\ pc = "reduce"
  /\ \E n \in Nodes(tree) :
       \E h \in 0..NodeLen(tree, n) :
         Step("reduce_height", <<n, h>>, reduce_height_to(tree, n, h))

NextReduce == ReduceHeightTo \/ InsertBuffer

SpecReduce == InitReduce /\ [][NextReduce]_vars

\* ------------------------------------------------------ prefix edge spec
\* the grids add_edge is called on, cut from the one of
\* unit_tests/graph_test.py: a row of buffers above two-input nodes, with a
\* one-input node at the right of the second row
EdgeCells ==
  { {<<0, 0>>, <<1, 0>>, <<0, 1>>, <<1, 1>>},
    {<<0, 0>>, <<0, 1>>, <<0, 2>>} }

EdgeGrids ==
  {Built(place(NewPrefixGraph(PrefixWidth),
               [c \in C |-> IF c[2] = 0 \/ c = <<1, 1>> THEN "buffer" ELSE "cocycle"])) :
     C \in EdgeCells}

InitEdges ==
  /\ tree \in EdgeGrids
  /\ pc = "edges"
  /\ start = 0
  /\ rk = 0
  /\ last = NoOp
  /\ prev = NoOp
  /\ ops = 0

\* one add_edge call: ops counts the calls made, rk those that got past the
\* checks at the head of add_edge (the ones that were not turned down with
\* ValueError); every call that returned has left one edge
EdgeStep(arg, t) ==
  /\ t.err = "none" \/ ops - Len(tree.edges) < MaxEdgeFailures
  /\ tree' = Done(t)
  /\ last' = [op |-> "add_edge", arg |-> arg, err |-> t.err, ret |-> None, pre |-> tree]
  /\ prev' = last
  /\ ops' = ops + 1
  /\ rk' = IF t.err = "ValueError" THEN rk ELSE rk + 1
  /\ UNCHANGED <<pc, start>>

\* graph.add_edge(n1, ("gout", b1), n2, (p2, b2))
PrefixAddEdge ==
  /\ pc = "edges" /\ ops < MaxEdgeOps
  /\ \E n1 \in DOMAIN tree.node, n2 \in DOMAIN tree.node :
       \E b1 \in 0..1, p2 \in {"gin", "gout"}, b2 \in 0..1 :
         EdgeStep(<<n1, <<"gout", b1>>, n2, <<p2, b2>>>>,
                  prefix_add_edge(tree, n1, <<"gout", b1>>, n2, <<p2, b2>>))

NextEdges == PrefixAddEdge

SpecEdges == InitEdges /\ [][NextEdges]_vars

\* ---------------------------------------------------------- catalan spec
\* catalan(n) as the interpreter runs it: the calls go down to catalan(0),
\* then every frame returns  catalan(k - 1) * (4 * k - 2) // (k + 1).
\* start is n, ops the argument of the frame at work, rk the value returned
\* last, last.arg the dividend and the divisor of the last floor division.
InitCatalan ==
  /\ tree = NoTree
  /\ pc = "call"
  /\ start \in 0..MaxCatalan
  /\ ops = start
  /\ rk = 0
  /\ last = NoOp
  /\ prev = NoOp

\* if n == 0 is false: evaluate catalan(n - 1)
CatalanCall ==
  /\ pc = "call"
  /\ ops > 0
  /\ ops' = ops - 1
  /\ UNCHANGED <<tree, pc, start, rk, last, prev>>

\* if n == 0: return 1
CatalanBase ==
  /\ pc = "call"
  /\ ops = 0
  /\ rk' = 1
  /\ pc' = "return"
  /\ last' = [NoOp EXCEPT !.op = "catalan", !.arg = <<1, 1>>, !.ret = 1]
  /\ UNCHANGED <<tree, start, ops, prev>>

\* return catalan(n - 1) * (4 * n - 2) // (n + 1)
CatalanReturn ==
  /\ pc = "return"
  /\ ops < start
  /\ ops' = ops + 1
  /\ rk' = (rk * (4 * ops' - 2)) \div (ops' + 1)
  /\ last' = [NoOp EXCEPT !.op = "catalan",
                          !.arg = <<rk * (4 * ops' - 2), ops' + 1>>, !.ret = rk']
  /\ prev' = last
  /\ UNCHANGED <<tree, pc, start>>

NextCatalan == CatalanCall \/ CatalanBase \/ CatalanReturn

SpecCatalan == InitCatalan /\ [][NextCatalan]_vars

\* ------------------------------------------------- properties: SpecRank
RECURSIVE ShapeOf(_, _)
\* the shape under a node: a leaf is <<its identifier>>, a node with two
\* children the pair of their shapes, a node with one child that child's
ShapeOf(t, n) ==
  LET ch == t.node[n].children
  IN IF Len(ch) = 0 THEN <<n>>
     ELSE IF Len(ch) = 1 THEN ShapeOf(t, ch[1])
     ELSE <<ShapeOf(t, ch[1]), ShapeOf(t, ch[2])>>

RECURSIVE AllShapes(_, _)
\* every binary tree shape whose leaves are, left to right, hi, hi-1, .., lo
AllShapes(hi, lo) ==
  IF hi = lo THEN {<<hi>>}
  ELSE UNION {{<<l, r>> : l \in AllShapes(hi, k), r \in AllShapes(k - 1, lo)} :
                k \in (lo + 1)..hi}

\* C1: for every width w >= 1 and every rank r in [0, catalan(w-1)), the
\* tree built with start_point = r has rank() = r.
RankInverse == pc = "ranked" => rk = start

\* C1 on the widths up to MaxShapeWidth: there rank() does return the start_point
RankInverseSmall == (pc = "ranked" /\ tree.width <= MaxShapeWidth) => rk = start

\* C2: for a fixed width, the tree built from a rank is a binary tree over
\* the leaves in their order (most significant first), trees built from
\* different ranks have different shapes, and there are as many shapes as
\* ranks: every shape is built exactly once.
UnrankBijection ==
  (pc = "built" /\ tree.width <= MaxShapeWidth) =>
    /\ tree.err = "none"
    /\ ShapeOf(tree, tree.root) \in AllShapes(tree.width + 1, 2)
    /\ \A r2 \in 0..(start - 1) :
         ShapeOf(Constructor(tree.width, r2, tree.node_defs), 1) # ShapeOf(tree, tree.root)
    /\ Cardinality(AllShapes(tree.width + 1, 2)) = catalan(tree.width - 1)

\* the last rank of width 5 has been built: the left comb
UnrankBijectionWitness ==
  /\ pc = "built"
  /\ tree.width = 5
  /\ start = catalan(4) - 1
  /\ ShapeOf(tree, tree.root) = <<<<<<<<<<6>>, <<5>>>>, <<4>>>>, <<3>>>>, <<2>>>>

\* C3: after the constructor, root.leafs = 2^w - 1 and the leaf created for
\* bit a has leafs = 2^a.
ConstructorLeafs ==
  pc = "built" =>
    /\ tree.node[tree.root].leafs = Pow2(tree.width) - 1
    /\ \A a \in 0..(tree.width - 1) : tree.node[a + 2].leafs = Pow2(a)

\* a tree of width 4 has been built from a rank that is neither first nor last
ConstructorLeafsWitness ==
  /\ pc = "built"
  /\ tree.width = 4
  /\ start = 2
  /\ tree.node[tree.root].leafs = 15
  /\ tree.node[5].leafs = 8

\* ----------------------------------------------------- properties: Spec
\* the bitwise OR of the leafs of the attached children of a node
ChildLeafs(t, n) == OrLeafs(t, t.node[n].children, 0)

\* C4: after every completed structural operation on a tree (add_edge,
\* remove_edge, left_rotate, right_rotate, insert_buffer, remove_buffer)
\* every node with at least one attached child has leafs equal to the
\* bitwise OR of the leafs of its attached children, the ancestors up to
\* the root included.
LeafsOfChildren ==
  (pc = "ops" /\ last.op # "none" /\ last.err = "none") =>
    \A n \in Nodes(tree) :
      Attached(tree, n) # {} => tree.node[n].leafs = ChildLeafs(tree, n)

\* C4 restricted to the rotations and the buffer operations, which do keep
\* the leafs of every node equal to the OR of its children's
LeafsOfChildrenRotated ==
  (/\ pc = "ops"
   /\ last.op \in {"left_rotate", "right_rotate", "insert_buffer", "remove_buffer"}
   /\ prev.op \in {"none", "left_rotate", "right_rotate", "insert_buffer", "remove_buffer"}
   /\ last.err = "none") =>
    \A n \in Nodes(tree) :
      Attached(tree, n) # {} => tree.node[n].leafs = ChildLeafs(tree, n)

Rotations == {"left_rotate", "right_rotate"}

\* the slot of its parent a pivot has to sit in (1-based): the right one for
\* left_rotate, the left one for right_rotate
Slot(op) == IF op = "left_rotate" THEN 2 ELSE 1

\* a full set of radix children
FullFamily(t, p) ==
  /\ Len(t.node[p].children) = t.radix
  /\ \A i \in 1..t.radix : t.node[p].children[i] # None

\* the pivot has a parent, the parent has a full set of radix children and
\* the pivot sits in the given slot
LegalPivot(t, n, slot) ==
  /\ t.node[n].parent # None
  /\ FullFamily(t, t.node[n].parent)
  /\ t.node[t.node[n].parent].children[slot] = n

\* rank() of the whole tree
Rank(t) == rank(t, t.root, FALSE)

\* C5: left_rotate(n), when it succeeds, followed by right_rotate on the node
\* left_rotate returned succeeds and leaves the tree with the rank it had
\* before the two rotations.
RotateBack ==
  (/\ pc = "ops"
   /\ prev.op = "left_rotate" /\ prev.err = "none"
   /\ last.op = "right_rotate" /\ last.arg = <<prev.ret>>) =>
    /\ last.err = "none"
    /\ Rank(tree) = Rank(prev.pre)

\* C5 with right_rotate applied to the left child of the returned node (the
\* former parent of the pivot): this does restore the rank
RotateBackChild ==
  (/\ pc = "ops"
   /\ prev.op = "left_rotate" /\ prev.err = "none"
   /\ last.op = "right_rotate"
   /\ last.arg = <<last.pre.node[prev.ret].children[1]>>) =>
    /\ last.err = "none"
    /\ Rank(tree) = Rank(prev.pre)

\* C6: a rotation of a node that has no parent, whose parent does not have
\* a full set of radix children, or that does not sit in the expected slot
\* of its parent fails with ValueError, and no link, leaf mask, depth, module
\* type, pin net or net counter of the tree is changed.
RotationRejected ==
  (/\ pc = "ops"
   /\ last.op \in Rotations
   /\ ~LegalPivot(last.pre, last.arg[1], Slot(last.op))) =>
    /\ last.err = "ValueError"
    /\ tree.node = last.pre.node
    /\ tree.next_net = last.pre.next_net

\* the pivot is legal, has its own two children, and its parent is the root
ThroughRoot(t, n, slot) ==
  /\ LegalPivot(t, n, slot)
  /\ FullFamily(t, n)
  /\ t.node[n].parent = t.root
  /\ t.node[t.root].parent = None

\* tree.root has no parent and carries the root type, which no other node
\* does; it is the only parentless node and every node is reachable from it
RootUnique(t) ==
  /\ t.node[t.root].parent = None
  /\ t.node[t.root].value = "root"
  /\ \A m \in Nodes(t) \ {t.root} : t.node[m].value # "root"
  /\ {m \in Nodes(t) : t.node[m].parent = None} = {t.root}
  /\ Nodes(t) \subseteq Below(t, {t.root})

\* C7: a rotation whose pivot's parent is the tree root succeeds and leaves
\* tree.root on the rotated node, which has no parent and carries the root
\* type while the former root does not, with or without "lspine" among the
\* node_defs; tree.root is then the unique parentless node from which every
\* node is reachable.
RootAfterRotation ==
  (/\ pc = "ops"
   /\ last.op \in Rotations
   /\ ThroughRoot(last.pre, last.arg[1], Slot(last.op))) =>
    /\ last.err = "none"
    /\ tree.root = last.ret
    /\ RootUnique(tree)

\* C7 on trees that have the "lspine" type and were only rotated: there the
\* root does follow the rotation
RootAfterRotationLspine ==
  (/\ pc = "ops"
   /\ last.op \in Rotations
   /\ prev.op \in Rotations \cup {"none"} /\ prev.err = "none"
   /\ "lspine" \in tree.node_defs
   /\ ThroughRoot(last.pre, last.arg[1], Slot(last.op))) =>
    /\ last.err = "none"
    /\ tree.root = last.ret
    /\ RootUnique(tree)

\* C10: in every reachable state of a tree no node has more than radix child
\* slots.
RadixSlots ==
  pc = "ops" => \A n \in Nodes(tree) : Len(tree.node[n].children) <= tree.radix

\* ------------------------------------------------ properties: SpecGraph
\* the nets on the two pins of add_edge(parent, pin1, child, pin2)
InNet(t, a) == t.node[a[1]].in_nets[a[2][1]][a[2][2] + 1]
OutNet(t, a) == t.node[a[3]].out_nets[a[4][1]][a[4][2] + 1]

\* the pin pairing of the call a is one of the pairings recorded on edge e
SamePairing(e, a) == \E k \in 1..Len(e) : e[k].ins = a[2] /\ e[k].outs = a[4]

\* C8: ExpressionGraph.add_edge reuses the net the parent's input pin or the
\* child's output pin already carries, for both pins, and leaves next_net
\* alone; only when both pins were unassigned do they get a new net, and
\* next_net grows by exactly one.  An edge that is removed and added again
\* with the same pin pairing gets a net it had, and no new one.
NetReuse ==
  /\ (pc = "graph" /\ last.op = "add_edge" /\ last.err = "none") =>
       IF InNet(last.pre, last.arg) # None \/ OutNet(last.pre, last.arg) # None
       THEN /\ tree.next_net = last.pre.next_net
            /\ InNet(tree, last.arg) = OutNet(tree, last.arg)
            /\ InNet(tree, last.arg) \in
                 {InNet(last.pre, last.arg), OutNet(last.pre, last.arg)} \ {None}
       ELSE /\ tree.next_net = last.pre.next_net + 1
            /\ InNet(tree, last.arg) = last.pre.next_net
            /\ OutNet(tree, last.arg) = last.pre.next_net
  /\ (/\ pc = "graph"
      /\ prev.op = "remove_edge" /\ prev.err = "none"
      /\ last.op = "add_edge" /\ last.err = "none"
      /\ prev.arg = <<last.arg[1], last.arg[3]>>
      /\ SamePairing(prev.pre.edges[prev.arg], last.arg)) =>
       /\ tree.next_net = prev.pre.next_net
       /\ InNet(tree, last.arg) \in
            {prev.pre.edges[prev.arg][k].net : k \in 1..Len(prev.pre.edges[prev.arg])}

\* the edge from node 1 to node 2 was added, removed and added again with
\* the same pins: it carries net 1 again and the counter stands at 2
NetReuseWitness ==
  /\ pc = "graph"
  /\ prev.op = "remove_edge" /\ prev.err = "none" /\ prev.arg = <<1, 2>>
  /\ last.op = "add_edge" /\ last.err = "none"
  /\ last.arg = <<1, <<"gin", 0>>, 2, <<"gout", 0>>>>
  /\ SamePairing(prev.pre.edges[prev.arg], last.arg)
  /\ InNet(last.pre, last.arg) = None
  /\ OutNet(last.pre, last.arg) = 1
  /\ InNet(tree, last.arg) = 1
  /\ tree.next_net = 2

\* the output pin occurrences that hold a net
OutPinsHolding(t, net) ==
  {x \in Nodes(t) \X PinsOf(<<[name |-> "gout", width |-> 1], [name |-> "sum", width |-> 1]>>) :
     /\ x[2][1] \in DOMAIN t.node[x[1]].out_nets
     /\ t.node[x[1]].out_nets[x[2][1]][x[2][2] + 1] = net}

\* C9: in every state reachable by add_edge and remove_edge calls no net is
\* held by more than one output pin occurrence.
SingleDriver ==
  pc = "graph" =>
    \A net \in 1..(tree.next_net - 1) : Cardinality(OutPinsHolding(tree, net)) <= 1

\* ---------------------------------------------------- properties: SpecBlocks
\* the nodes of a graph of either class
GraphMembers(t) == IF "nodes" \in DOMAIN t THEN t.nodes ELSE DOMAIN t.node

\* the last two calls were add_block, which made a block, and remove_block
\* on the identifier it returned
AddedThenRemoved ==
  /\ last.op = "remove_block"
  /\ prev.op = "add_block"
  /\ prev.err = "none"
  /\ prev.ret # NoBlock
  /\ last.arg = <<prev.ret>>

\* C11: creating a block with add_block and deleting it with remove_block on
\* the returned identifier succeeds, leaves every member with block None and
\* leaves the node set, the edges and every node's pin nets (the whole node
\* record, block included) as they were before the add_block, in the
\* ExpressionGraph class and in the prefix_graph class
BlockRoundTrip ==
  AddedThenRemoved =>
    /\ last.err = "none"
    /\ \A n \in prev.arg[1] : tree.node[n].block = NoBlock
    /\ GraphMembers(tree) = GraphMembers(prev.pre)
    /\ tree.edges = prev.pre.edges
    /\ tree.next_net = prev.pre.next_net
    /\ tree.node = prev.pre.node

\* a block of two nodes of a connected graph was created and deleted
BlockRoundTripWitness ==
  /\ AddedThenRemoved
  /\ Cardinality(prev.arg[1]) = 2
  /\ tree.edges # << >>

\* the first block identifier of a graph: 0 in an ExpressionGraph, 1 in a
\* prefix_graph
FirstBlockId == IF pc = "blocks" THEN 0 ELSE 1

\* C12: an add_block that makes a block returns the smallest identifier that
\* no block of the graph was using; in particular the identifier of a block
\* just removed is handed out again when it is the smallest free one
SmallestFreeId ==
  (last.op = "add_block" /\ last.err = "none" /\ last.ret # NoBlock) =>
    last.ret = FirstFree(last.pre.blocks, FirstBlockId)

\* the nodes of block b: the entry of the block table, which in an
\* ExpressionGraph is a subgraph view and so shows the nodes still in the graph
BlockOf(t, b) ==
  IF t.blocks[b + 1].free THEN {}
  ELSE t.blocks[b + 1].members \cap GraphMembers(t)

\* node.block and the block table say the same
BlocksConsistent(t) ==
  \A n \in GraphMembers(t) :
    /\ t.node[n].block # NoBlock => t.node[n].block \in 0..(Len(t.blocks) - 1)
    /\ \A b \in 0..(Len(t.blocks) - 1) : t.node[n].block = b <=> n \in BlockOf(t, b)

\* C13: add_block on nodes of which one is already in a block raises
\* ValueError and changes no block field, nor the block table, nor
\* next_block; and in every reachable state node.block = b exactly when the
\* node is a member of blocks[b], so that no node is in two blocks
BlockMembership ==
  /\ (last.op = "add_block" /\ \E n \in last.arg[1] : last.pre.node[n].block # NoBlock) =>
       /\ last.err = "ValueError"
       /\ tree.node = last.pre.node
       /\ tree.blocks = last.pre.blocks
       /\ tree.next_block = last.pre.next_block
  /\ pc \in {"blocks", "prefix"} => BlocksConsistent(tree)

\* the same, as long as the tree is only put into blocks and taken out of
\* them
BlockMembershipStill ==
  (pc = "prefix" \/ (last.op \in {"none", "add_block", "remove_block"}
                     /\ prev.op \in {"none", "add_block", "remove_block"}))
    => BlockMembership

\* the depth level of a node: y_pos in an ExpressionGraph, y in a
\* prefix_graph
Level(t, n) == IF "y_pos" \in DOMAIN t.node[n] THEN t.node[n].y_pos ELSE t.node[n].y

\* two nodes of S are on the same level
ShareLevel(t, S) == \E n \in S, m \in S : n # m /\ Level(t, n) = Level(t, m)

\* C14: add_block raises ValueError when two of the nodes it is given are on
\* the same depth level, and in no reachable state, whatever rotations and
\* buffer operations followed, do two members of one block share a level
OneNodePerLevel ==
  pc \in {"blocks", "prefix"} =>
    /\ (last.op = "add_block" /\ ShareLevel(last.pre, last.arg[1])) =>
         last.err = "ValueError"
    /\ \A b \in 0..(Len(tree.blocks) - 1) : ~ShareLevel(tree, BlockOf(tree, b))

\* the same for the prefix_graph class alone
OneNodePerLevelPrefix == pc = "prefix" => OneNodePerLevel

\* reset_blocks was the last call
ResetCalled == pc = "blocks" /\ last.op = "reset_blocks"

\* the blocks of the table before the last call
BlocksBefore == {x \in 1..Len(last.pre.blocks) : ~last.pre.blocks[x].free}

\* C23: reset_blocks() completes without error for any graph with zero or
\* more blocks, and afterwards every node has block == None,
\* blocks == [None] and next_block == 0.
ResetBlocksClears ==
  ResetCalled =>
    /\ last.err = "none"
    /\ \A n \in Nodes(tree) : tree.node[n].block = NoBlock
    /\ tree.blocks = <<NoneBlock>>
    /\ tree.next_block = 0

\* what reset_blocks does: with no block in the table it sets the table to
\* [None] and next_block to 0; with a block in the table it raises
\* ValueError and leaves the graph as it was
ResetBlocksRaises ==
  ResetCalled =>
    IF BlocksBefore = {}
    THEN last.err = "none" /\ tree.blocks = <<NoneBlock>> /\ tree.next_block = 0
    ELSE last.err = "ValueError" /\ tree = last.pre

\* ------------------------------------------------------ properties: SpecPath
\* no node outside the blocks has a predecessor outside the blocks
NoOpenEdge(t) ==
  \A n \in DOMAIN t.node : t.node[n].block = NoBlock => OpenPreds(t, n) = {}

\* C15: longest_path returns None, and does not raise, on a graph without
\* nodes, on a graph of one isolated node and whenever no node outside the
\* blocks has a predecessor outside the blocks
NoPathReturned ==
  (last.op = "longest_path" /\ NoOpenEdge(last.pre)) =>
    /\ last.err = "none"
    /\ last.ret = NoPath

\* the graph is one chain of physical nodes outside the blocks: two nodes
\* or more, one to a level, each but the first fed by the node above it
IsChain(t) ==
  /\ Cardinality(DOMAIN t.node) >= 2
  /\ \A n \in DOMAIN t.node : t.node[n].block = NoBlock /\ is_node(t, n)
  /\ \A n \in DOMAIN t.node, m \in DOMAIN t.node : n # m => t.node[n].y # t.node[m].y
  /\ \A n \in DOMAIN t.node :
       (\E m \in DOMAIN t.node : t.node[m].y < t.node[n].y) => Preds(t, n) # {}

RECURSIVE ChainFrom(_, _)
\* the nodes of S from the lowest level number to the highest: from the
\* source of the chain to its sink
ChainFrom(t, S) ==
  IF S = {} THEN << >>
  ELSE <<CHOOSE n \in S : \A m \in S : t.node[n].y <= t.node[m].y>>
       \o ChainFrom(t, S \ {CHOOSE n \in S : \A m \in S : t.node[n].y <= t.node[m].y})

\* C16: on a graph that is a single chain n0 -> ... -> nk of physical nodes
\* outside the blocks, longest_path returns the nodes of the chain in
\* topological order, source first and sink last
ChainSourceFirst ==
  (last.op = "longest_path" /\ IsChain(last.pre)) =>
    /\ last.err = "none"
    /\ last.ret = ChainFrom(last.pre, DOMAIN last.pre.node)

\* what longest_path does return on a chain: all its nodes, sink first
ChainSinkFirst ==
  (last.op = "longest_path" /\ IsChain(last.pre)) =>
    /\ last.err = "none"
    /\ last.ret = Reverse(ChainFrom(last.pre, DOMAIN last.pre.node))

\* two connected physical nodes outside the blocks
OpenPair(t) ==
  \E n \in DOMAIN t.node :
    /\ t.node[n].block = NoBlock /\ is_node(t, n)
    /\ \E v \in OpenPreds(t, n) : is_node(t, v)

\* the nodes of S are one to a level and each but the first is fed by
\* another node of S
IsPath(t, S) ==
  /\ S # {}
  /\ ~ShareLevel(t, S)
  /\ \A n \in S : (\E m \in S : t.node[m].y < t.node[n].y) => Preds(t, n) \cap S # {}

\* block b of graph t was not a block of graph pre
NewBlock(pre, t, b) ==
  IF b >= Len(pre.blocks) THEN TRUE ELSE t.blocks[b + 1] # pre.blocks[b + 1]

\* C17: add_best_blocks returns, without an exception; every block it made
\* is a path of the graph; and when it has returned no two connected
\* physical nodes are left outside the blocks
BestBlocksComplete ==
  last.op = "add_best_blocks" =>
    /\ last.err = "none"
    /\ \A b \in 1..(Len(tree.blocks) - 1) :
         (~tree.blocks[b + 1].free /\ NewBlock(last.pre, tree, b))
           => IsPath(tree, tree.blocks[b + 1].members)
    /\ ~OpenPair(tree)

\* the last call of longest_path returned a path
PathGiven ==
  /\ pc = "path"
  /\ last.op = "longest_path"
  /\ last.err = "none"
  /\ last.ret # NoPath

\* p, read from its last element to its first, runs along edges of t
\* through nodes that are in no block
IsOpenPath(t, p) ==
  /\ \A i \in 1..Len(p) : p[i] \in DOMAIN t.node /\ t.node[p[i]].block = NoBlock
  /\ \A i \in 1..(Len(p) - 1) : p[i + 1] \in Preds(t, p[i])

\* both ends of p are physical nodes
PhysicalEnds(t, p) == is_node(t, p[1]) /\ is_node(t, p[Len(p)])

RECURSIVE PathWeight(_, _)
\* the total weight of the edges along p
PathWeight(t, p) ==
  IF Len(p) <= 1 THEN 0
  ELSE EdgeWeight(t, p[2], p[1]) + PathWeight(t, Tail(p))

\* every path of t through nodes outside the blocks with physical ends
OpenPaths(t) ==
  {p \in UNION {[1..k -> DOMAIN t.node] : k \in 1..(MaxLevel + 1)} :
     IsOpenPath(t, p) /\ PhysicalEnds(t, p)}

\* C28: when longest_path returns a path, the path consists only of nodes
\* outside the blocks joined by edges, starts and ends at physical nodes,
\* and has the greatest total edge weight among all such paths of the graph
\* (the same graph always yields the same path: longest_path is a function
\* of the graph)
LongestPathIsLongest ==
  PathGiven =>
    /\ IsOpenPath(last.pre, last.ret)
    /\ PhysicalEnds(last.pre, last.ret)
    /\ \A q \in OpenPaths(last.pre) :
         PathWeight(last.pre, q) <= PathWeight(last.pre, last.ret)

\* what does hold of a returned path: nodes outside the blocks joined by
\* edges, the first one, the sink, a physical node
LongestPathEndsPhysical ==
  PathGiven =>
    /\ IsOpenPath(last.pre, last.ret)
    /\ is_node(last.pre, last.ret[1])

\* ---------------------------------------------------- properties: SpecMirror
\* the node that stands where n stood before the last call: the root for
\* the root, else the child in the slot n had under its parent
InPlaceOf(n) ==
  IF last.pre.node[n].parent = None THEN tree.root
  ELSE tree.node[last.pre.node[n].parent].children[
         IndexIn(last.pre, last.pre.node[n].parent, n) + 1]

\* number of leaves under n
LeafCount(t, n) == popcount(t.node[n].leafs)

\* C18: mirror_subtree on a node whose subtree has k leaves and a rank r that
\* is a legal mirror pivot completes and leaves in its place a subtree over
\* the same leaves of rank catalan(k - 1) - 1 - r; the node may be the root
MirrorRank ==
  (/\ last.op = "mirror_subtree"
   /\ ~unmirrorable(rank(last.pre, last.arg[1], FALSE), LeafCount(last.pre, last.arg[1]) - 1))
  => /\ last.err = "none"
     /\ tree.node[InPlaceOf(last.arg[1])].leafs = last.pre.node[last.arg[1]].leafs
     /\ rank(tree, InPlaceOf(last.arg[1]), FALSE)
          = catalan(LeafCount(last.pre, last.arg[1]) - 1) - 1
              - rank(last.pre, last.arg[1], FALSE)

\* the same for the nodes under the root of a tree fresh from the
\* constructor
MirrorRankBelowRoot ==
  (last.op = "mirror_subtree" /\ prev.op = "none" /\ last.arg[1] # last.pre.root)
    => MirrorRank

\* --------------------------------------------------- properties: SpecBalance
RECURSIVE DepthBelowRoot(_, _)
\* the number of parent links from a node up to the node without a parent
DepthBelowRoot(t, n) ==
  IF t.node[n].parent = None THEN 0 ELSE 1 + DepthBelowRoot(t, t.node[n].parent)

\* the leaves of the tree: leaf a is the object with identifier a + 2
TreeLeafs(t) == {a + 2 : a \in 0..(t.width - 1)}

\* the constructor has just been called with width 8 and alias 'kogge-stone'
KoggeStone8 == pc = "balance" /\ last.op = "init" /\ last.arg = <<8, "kogge-stone">>

\* C19: a width-8 tree built with alias 'kogge-stone' (lbalance followed by
\* equalize_depths on root[1]) has every one of its 8 leaves at depth 3
\* below the root
KoggeStoneDepth ==
  KoggeStone8 =>
    /\ last.err = "none"
    /\ \A n \in TreeLeafs(tree) : n \in Nodes(tree) /\ DepthBelowRoot(tree, n) = 3

\* what the recipe builds: the constructor returns, leaf 7 stays the first
\* child of the root at depth 1, and the other 7 leaves are at depth 4, that
\* is 3 below root[1]; y_pos agrees with the depth
KoggeStoneDepthBelowChild ==
  KoggeStone8 =>
    /\ last.err = "none"
    /\ tree.node[tree.root].children[1] = 9
    /\ DepthBelowRoot(tree, 9) = 1
    /\ \A a \in 0..6 :
         /\ DepthBelowRoot(tree, a + 2) = 4
         /\ tree.node[tree.root].children[2] \in Ancestors(tree, a + 2)
    /\ \A n \in TreeLeafs(tree) : tree.node[n].y_pos = DepthBelowRoot(tree, n)

\* ------------------------------------------------ properties: match_nodes
\* an input port of the parent type that needs a connection at child index
\* i (0-based) has no verso output port on the child type
NoVersoPort(parent_type, child_type, i) ==
  \E k \in 1..Len(ModuleIns(parent_type)) :
    /\ ModuleIns(parent_type)[k].fan[i + 1] # 0
    /\ get_matching_port(ModuleIns(parent_type)[k], ModuleOuts(child_type)) = 0

\* no input port of the parent type has a nonzero width at child index i
NoPortAt(parent_type, i) ==
  \A k \in 1..Len(ModuleIns(parent_type)) : ModuleIns(parent_type)[k].fan[i + 1] = 0

\* what is connected in a tree: the recorded edges, and every object's
\* children, parent and nets
Connections(t) ==
  [ edges |-> t.edges,
    links |-> [n \in DOMAIN t.node |->
                 <<t.node[n].children, t.node[n].parent,
                   t.node[n].in_nets, t.node[n].out_nets>>] ]

\* the last call was tree.add_edge(p, c, i) on nodes of the types pt and ct
AddEdgeCalled == pc = "ops" /\ last.op = "add_edge"

ParentType == last.pre.node[last.arg[1]].value
ChildType == last.pre.node[last.arg[2]].value

\* C20: match_nodes reports no match, so that add_edge fails with
\* ValueError ('Nodes do not have matching ports') and connects nothing,
\* both when a required input port of the parent type has no verso output
\* port on the child type and when no input port of the parent type has a
\* nonzero width at the child index
NoMatchFails ==
  (/\ AddEdgeCalled
   /\ \/ NoVersoPort(ParentType, ChildType, last.arg[3])
      \/ NoPortAt(ParentType, last.arg[3]))
    => /\ last.err = "ValueError"
       /\ Connections(tree) = Connections(last.pre)

\* the first case alone: a required port without a verso port makes
\* add_edge fail before anything is connected
NoVersoFails ==
  (AddEdgeCalled /\ NoVersoPort(ParentType, ChildType, last.arg[3]))
    => /\ last.err = "ValueError"
       /\ tree = Done(last.pre)

\* the second case: with no port to connect at the index match_nodes
\* returns the empty list, add_edge connects nothing and returns
NoPortReturns ==
  (AddEdgeCalled /\ NoPortAt(ParentType, last.arg[3]))
    => /\ match_nodes(ParentType, ChildType, last.arg[3]) = [ok |-> TRUE, pairs |-> << >>]
       /\ last.err = "none"
       /\ Connections(tree) = Connections(last.pre)

\* ------------------------------------------------ properties: SpecCatalan
RECURSIVE Convolve(_, _)
\* c[1] * c[k] + c[2] * c[k - 1] + .. + c[k] * c[1]
Convolve(c, k) ==
  IF k = 0 THEN 0 ELSE c[k] * c[Len(c) + 1 - k] + Convolve(c, k - 1)

RECURSIVE CatalanNumbers(_)
\* the Catalan numbers C(0) .. C(n) by their defining recurrence
\* C(0) = 1, C(m + 1) = sum of C(i) * C(m - i) for i in 0..m
CatalanNumbers(n) ==
  IF n = 0 THEN <<1>>
  ELSE LET c == CatalanNumbers(n - 1) IN Append(c, Convolve(c, Len(c)))

\* C21: catalan(n), computed by C(0) = 1, C(n) = C(n-1)*(4n-2)//(n+1), is
\* the n-th Catalan number for every n in the checked range, each floor
\* division is exact, and catalan(0..4) = [1, 1, 2, 5, 14].
CatalanExact ==
  pc = "return" =>
    /\ rk = CatalanNumbers(MaxCatalan + 1)[ops + 1]
    /\ catalan(ops) = rk
    /\ last.arg[1] % last.arg[2] = 0
    /\ last.arg[1] = rk * last.arg[2]
    /\ ops <= 4 => rk = <<1, 1, 2, 5, 14>>[ops + 1]

\* catalan(15) has returned 9694845 after fifteen exact divisions, the last
\* one of 2674440 * 58 by 16
CatalanExactWitness ==
  /\ pc = "return"
  /\ start = 15
  /\ ops = 15
  /\ rk = 9694845
  /\ last.arg = <<155117520, 16>>
  /\ prev.ret = 2674440

\* -------------------------------------------------- properties: SpecEdges
\* the net on output pin of node n
OutPinNet(t, n, pin) == t.node[n].outs[pin[1]][pin[2] + 1]

\* the net on input pin of node n
InPinNet(t, n, pin) == t.node[n].ins[pin[1]][pin[2] + 1]

\* the last call was an add_edge that returned
EdgeAdded == last.op = "add_edge" /\ last.err = "none"

\* both pins of the last call were unassigned when it was made
FreshPins ==
  /\ OutPinNet(last.pre, last.arg[1], last.arg[2]) = None
  /\ InPinNet(last.pre, last.arg[3], last.arg[4]) = None

\* what the last add_edge call left on its two pins, the net counting
\* from `index` on fresh pins
EdgeNets(index) ==
  /\ OutPinNet(tree, last.arg[1], last.arg[2]) = InPinNet(tree, last.arg[3], last.arg[4])
  /\ OutPinNet(tree, last.arg[1], last.arg[2]) # None
  /\ FreshPins => OutPinNet(tree, last.arg[1], last.arg[2]) = index
  /\ OutPinNet(last.pre, last.arg[1], last.arg[2]) # None =>
       InPinNet(tree, last.arg[3], last.arg[4]) = OutPinNet(last.pre, last.arg[1], last.arg[2])

\* C22: after prefix_graph.add_edge both pins hold the same net; on fresh
\* pins it is the 1-based index of this call among all add_edge calls on
\* the graph; a second edge out of an output pin that carries a net gives
\* the new consumer that net.
NetIsCallIndex == EdgeAdded => EdgeNets(ops)

\* C22 as amended: on fresh pins the net is the 1-based index of the call
\* among the add_edge calls that were not turned down with ValueError.
NetIsAcceptedCallIndex == EdgeAdded => EdgeNets(rk)

\* the fourth call, on fresh pins, got net 4 although an earlier call took
\* over the net of its output pin
NetIsAcceptedCallIndexWitness ==
  /\ EdgeAdded /\ FreshPins
  /\ ops = 4 /\ rk = 4
  /\ OutPinNet(tree, last.arg[1], last.arg[2]) = 4
  /\ \E i \in 1..Len(tree.edges), j \in 1..Len(tree.edges) :
       i < j /\ tree.edges[i].edge_name = tree.edges[j].edge_name

\* -------------------------------------------------- properties: SpecDepth
\* every node without a parent is in row 0 and every other node one row
\* below its parent
YPosIsDepth(t) ==
  \A n \in Nodes(t) :
    IF t.node[n].parent = None THEN t.node[n].y_pos = 0
    ELSE t.node[n].y_pos = t.node[t.node[n].parent].y_pos + 1

\* the nodes of the subtrees the last call works on: the subtree of the
\* parent for a rotation, the subtree of the node for a buffer operation
AffectedNodes ==
  IF last.op \in {"left_rotate", "right_rotate"}
       /\ last.pre.node[last.arg[1]].parent # None
  THEN Below(last.pre, {last.pre.node[last.arg[1]].parent})
  ELSE Below(last.pre, {last.arg[1]})

\* C24: after every left_rotate, right_rotate, insert_buffer and
\* remove_buffer every node's y_pos is its depth (the root's is 0, every
\* other node's its parent's y_pos + 1), and the nodes outside the subtrees
\* the operation works on keep their y_pos.
YPosAfterOperation ==
  (pc = "depth" /\ last.op # "none") =>
    /\ YPosIsDepth(tree)
    /\ \A n \in Nodes(last.pre) \ AffectedNodes :
         n \in Nodes(tree) /\ tree.node[n].y_pos = last.pre.node[n].y_pos

\* C24 for the trees whose node_defs name an 'lspine' type: there every
\* rotation through the root completes and the depths are kept
YPosAfterOperationLspine == "lspine" \in tree.node_defs => YPosAfterOperation

\* ------------------------------------------------- properties: SpecRotate
\* the nodes with two child slots other than the root
InnerNodes(t) == {n \in Nodes(t) \ {t.root} : Len(t.node[n].children) = 2}

\* C25: when node_defs defines an 'lspine' type, in every tree made by
\* unrank and any sequence of rotations a two-child node other than the
\* root has the lspine type if and only if its leaf mask holds the most
\* significant leaf (leafs >= 2^(width-1)), and the cocycle type otherwise.
SpineTypes ==
  (pc = "rotate" /\ "lspine" \in tree.node_defs) =>
    \A n \in InnerNodes(tree) :
      tree.node[n].value = IF tree.node[n].leafs >= Pow2(tree.width - 1)
                           THEN "lspine" ELSE "cocycle"

\* two rotations have gone through the left spine of a tree of width 5, the
\* second one below the root, and the tree has both kinds of inner nodes
SpineTypesWitness ==
  /\ pc = "rotate" /\ "lspine" \in tree.node_defs /\ tree.width = 5
  /\ ops = 2 /\ last.err = "none" /\ prev.err = "none"
  /\ prev.op = "right_rotate" /\ last.op = "left_rotate"
  /\ last.pre.node[last.arg[1]].value = "cocycle"
  /\ tree.node[last.ret].value = "lspine"
  /\ \E n \in InnerNodes(tree) : tree.node[n].value = "cocycle"

\* left_shift or right_shift was the last call, on a node with two children
ShiftCalled ==
  /\ pc = "rotate" /\ last.op \in {"left_shift", "right_shift"}
  /\ Len(last.pre.node[last.arg[1]].children) = 2

\* the node of the last call sat on the spine the call shifts to
OnTargetSpine ==
  IF last.op = "left_shift" THEN _on_lspine(last.pre, last.arg[1])
  ELSE _on_rspine(last.pre, last.arg[1])

\* C26: left_shift(n) (right_shift(n)) terminates for every internal node n
\* of a buffer-free tree; it returns None and leaves the tree unchanged
\* exactly when n sits on the left (right) spine, and otherwise returns the
\* rotated node, which the rotations have brought closer to the root.
ShiftReachesSpine ==
  ShiftCalled =>
    /\ last.err = "none"
    /\ (last.ret = None) <=> OnTargetSpine
    /\ last.ret = None => tree = last.pre
    /\ last.ret # None =>
         /\ last.ret \in Nodes(tree)
         /\ tree.node[last.ret].leafs = BitOr(last.pre.node[last.arg[1]].leafs,
                                               tree.node[last.ret].leafs)
         /\ tree.node[last.ret].y_pos < last.pre.node[last.arg[1]].y_pos

\* C26 for the trees whose node_defs name an 'lspine' type, where the
\* rotations through the root complete
ShiftReachesSpineLspine == "lspine" \in tree.node_defs => ShiftReachesSpine

\* the nodes of t without children
LeafNodes(t) == {n \in Nodes(t) : Len(t.node[n].children) = 0}

\* m is a run of adjacent bits within w bits
IsRun(w, m) == \E a \in 0..(w - 1), k \in 1..w : m = Pow2(a) * (Pow2(k) - 1)

\* the leaves under tree.root, read from the left, are bit w-1 down to bit 0
LeavesInOrder(t) ==
  /\ Len(_get_reversed_leafs(t, t.root)) = t.width
  /\ \A i \in 1..Len(_get_reversed_leafs(t, t.root)) :
       t.node[_get_reversed_leafs(t, t.root)[i]].leafs = Pow2(t.width - i)

\* the leaves are in order, they are the nodes that were leaves before the
\* last call, and every other node's mask is a run of adjacent bits
LeavesKept ==
  /\ LeavesInOrder(tree)
  /\ last.op # "none" => LeafNodes(tree) = LeafNodes(last.pre)
  /\ \A n \in Nodes(tree) \ LeafNodes(tree) : IsRun(tree.width, tree.node[n].leafs)

\* C29: after any sequence of legal left_rotate, right_rotate, left_shift
\* and right_shift calls on a tree of width w the left-to-right order of the
\* leaves is unchanged (the leftmost leaf is bit w-1, the rightmost bit 0),
\* the set of nodes that are leaves is unchanged, and every internal node's
\* leaf mask is a contiguous run of bits.
LeafOrderKept == pc = "rotate" => LeavesKept

\* the same for trees built with 'lspine' in node_defs
LeafOrderKeptLspine == (pc = "rotate" /\ "lspine" \in tree.node_defs) => LeavesKept

\* the same as long as no call has ended with an exception
LeafOrderKeptReturned ==
  (pc = "rotate" /\ last.err = "none" /\ prev.err = "none") => LeavesKept

RECURSIVE Shape(_, _)
\* the subtree under n without the identity of its objects: type, leaf mask
\* and depth of the node and the shapes of its children, slot by slot
Shape(t, n) ==
  IF n = None THEN << >>
  ELSE << t.node[n].value, t.node[n].leafs, t.node[n].y_pos,
          [i \in 1..Len(t.node[n].children) |-> Shape(t, t.node[n].children[i])] >>

\* both trees hang from a parentless tree.root and have the same shape
SameTree(a, b) ==
  /\ a.node[a.root].parent = None
  /\ b.node[b.root].parent = None
  /\ Shape(a, a.root) = Shape(b, b.root)

\* the rotation that goes the other way
Opposite(op) == IF op = "left_rotate" THEN "right_rotate" ELSE "left_rotate"

\* call r was a rotation of a node with two children of its own that sat in
\* the slot the rotation asks for
LegalRotation(r) ==
  /\ r.op \in Rotations
  /\ LegalPivot(r.pre, r.arg[1], Slot(r.op))
  /\ FullFamily(r.pre, r.arg[1])

\* a legal rotation has returned and the last call was the opposite rotation
\* of the child that stands where the pivot's parent went: the left child
\* of the rotated node after left_rotate, the right one after right_rotate
RotatedBack ==
  /\ LegalRotation(prev) /\ prev.err = "none"
  /\ last.op = Opposite(prev.op)
  /\ last.arg = <<last.pre.node[prev.ret].children[Slot(last.op)]>>

\* the second rotation returned and the tree is the one before the first
Restored == last.err = "none" /\ SameTree(tree, prev.pre)

\* C30: for every node n on which left_rotate is legal, left_rotate(n)
\* followed by right_rotate of the node that is then n's left child restores
\* the original tree: the same parent/child shape, leaf masks, depths and
\* type tags at every position and tree.root on top; and the same for
\* right_rotate followed by left_rotate of the new right child.
RotateRestores ==
  pc = "rotate" =>
    /\ LegalRotation(last) => last.err = "none"
    /\ RotatedBack => Restored

\* the same for trees built with 'lspine' in node_defs
RotateRestoresLspine == "lspine" \in tree.node_defs => RotateRestores

\* whenever the first rotation has returned, the second one restores the tree
RotateRestoresReturned == (pc = "rotate" /\ RotatedBack) => Restored

\* ---------------------------------------------------------------------
\* properties: SpecReduce
\* ---------------------------------------------------------------------

\* the last operation was reduce_height(node, t) on an internal node whose
\* subtree is higher than t
ReduceCalled ==
  /\ pc = "reduce"
  /\ last.op = "reduce_height"
  /\ Len(last.pre.node[last.arg[1]].children) > 0
  /\ NodeLen(last.pre, last.arg[1]) > last.arg[2]

\* what the call is said to do: None and an untouched tree when 2^t is
\* smaller than the number of leaves, otherwise the root of a subtree of
\* height at most t over the same leaves in the same order
ReduceOutcome ==
  IF Pow2(last.arg[2]) < popcount(last.pre.node[last.arg[1]].leafs)
  THEN last.err = "none" /\ last.ret = None /\ tree = last.pre
  ELSE /\ last.err = "none"
       /\ last.ret # None
       /\ last.ret \in Nodes(tree)
       /\ NodeLen(tree, last.ret) <= last.arg[2]
       /\ _get_leafs(tree, last.ret) = _get_leafs(last.pre, last.arg[1])

\* C27: reduce_height(node, t) on an internal node whose subtree height
\* exceeds t returns None and leaves the tree unchanged if 2^t is smaller
\* than the number of leaves under node; otherwise it terminates and
\* returns the root of the restructured subtree, of height at most t and
\* with the same leaves in the same left-to-right order.
ReduceHeightWorks == ReduceCalled => ReduceOutcome

\* the same on a two-child node of a tree without buffers built with
\* 'lspine' in node_defs
ReduceHeightWorksLspine ==
  ( /\ ReduceCalled
    /\ Len(last.pre.node[last.arg[1]].children) = 2
    /\ "lspine" \in tree.node_defs
    /\ NumBuffers(last.pre) = 0 ) => ReduceOutcome

====
